---- MODULE Spec2Model ----
(***************************************************************************)
(* A model of the aarith arbitrary-width arithmetic core: word arrays,     *)
(* unsigned and signed integers stored in them, and the operations on      *)
(* them, translated word by word from the C++ sources.                     *)
(*                                                                         *)
(* A value is a record [width |-> N, words |-> <<w0, w1, ...>>]: N bits     *)
(* held in ceil(N / WordWidth) storage words, word 0 least significant.    *)
(* The storage word has WordWidth bits; every word operation is computed   *)
(* modulo 2^WordWidth, as the unsigned word type of the code does.         *)
(***************************************************************************)
EXTENDS Integers, Sequences, FiniteSets, TLC

VARIABLES op, a, b, carry_in, rhs, rng, res, flag, err, count, es, params,
          arg1, arg2, out

vars == <<op, a, b, carry_in, rhs, rng, res, flag, err, count, es, params,
          arg1, arg2, out>>

(***************************************************************************)
(* Bounds of the model.                                                    *)
(***************************************************************************)
\* bits of one storage word (the WordType template parameter)
WordWidth == 2
\* largest operand width of the integer arithmetic and comparison runs
MaxWidth == 4
\* largest width of the shifted / sliced word array
MaxShiftWidth == 6
\* largest shift count
MaxShift == 8
\* largest width of the register of the operation sequences
MaxBitsWidth == 3
\* the widest posit and the most exponent bits of the posit specifications
MaxPositWidth == 4

MaxES == 1

\* the fraction bits below the hidden bit that the input positparams vary
MaxFractionBits == 2

\* the widest posit type and the varied fraction bits of the added positparams
MaxAddWidth == 3

MaxAddFractionBits == 1

\* the widest posit type of the endpoints of a valid
MaxValidWidth == 2

\* the widest exponent and mantissa of the normalized floats, and the cap on
\* the re-dispatches between add and sub that are followed
MaxExponentWidth == 2

MaxMantissaWidth == 2

MaxDispatch == 4

\* the widest integer part and the widest fractional part of the fixed-point
\* operands
MaxFixedWidth == 2

\* the widest operand of the zips and the largest initial state
MaxZipWidth == 4

MaxZipState == 1

(***************************************************************************)
(* Machine words.                                                          *)
(***************************************************************************)
WordMod == 2 ^ WordWidth

WordAllOnes == WordMod - 1

Max(x, y) == IF x >= y THEN x ELSE y

Min(x, y) == IF x <= y THEN x ELSE y

WordBit(w, i) == (w \div (2 ^ i)) % 2

RECURSIVE WordAndUpTo(_, _, _)
WordAndUpTo(x, y, i) ==
    IF i = 0 THEN 0
    ELSE WordAndUpTo(x, y, i - 1) + (WordBit(x, i - 1) * WordBit(y, i - 1)) * (2 ^ (i - 1))

\* x & y on words
WordAnd(x, y) == WordAndUpTo(x, y, WordWidth)

RECURSIVE WordOrUpTo(_, _, _)
WordOrUpTo(x, y, i) ==
    IF i = 0 THEN 0
    ELSE WordOrUpTo(x, y, i - 1) + Max(WordBit(x, i - 1), WordBit(y, i - 1)) * (2 ^ (i - 1))

\* x | y on words
WordOr(x, y) == WordOrUpTo(x, y, WordWidth)

RECURSIVE WordXorUpTo(_, _, _)
WordXorUpTo(x, y, i) ==
    IF i = 0 THEN 0
    ELSE WordXorUpTo(x, y, i - 1) + ((WordBit(x, i - 1) + WordBit(y, i - 1)) % 2) * (2 ^ (i - 1))

\* x ^ y on words
WordXor(x, y) == WordXorUpTo(x, y, WordWidth)

\* ~x on a word
WordNot(x) == WordAllOnes - x

\* x << n on a word, 0 <= n < WordWidth
WordShl(x, n) == (x * (2 ^ n)) % WordMod

\* x >> n on a word, 0 <= n < WordWidth
WordShr(x, n) == x \div (2 ^ n)

(***************************************************************************)
(* The word array container.                                               *)
(***************************************************************************)
word_count(N) == (N + WordWidth - 1) \div WordWidth

\* the mask of the significant bits of word i of an N-bit array
word_mask(N, i) ==
    IF i < word_count(N) - 1 THEN WordAllOnes
    ELSE (2 ^ (N - (word_count(N) - 1) * WordWidth)) - 1

\* the default-constructed array: all words zero
Zero(N) == [width |-> N, words |-> [i \in 1..word_count(N) |-> 0]]

word(x, i) == x.words[i + 1]

\* set_word stores value & word_mask(index)
set_word(x, i, v) == [x EXCEPT !.words[i + 1] = WordAnd(v, word_mask(x.width, i))]

\* bit i of the array, as 0 or 1
bit(x, i) == WordBit(word(x, i \div WordWidth), i % WordWidth)

\* set_bit(i): bit i becomes one
set_bit(x, i) ==
    [x EXCEPT !.words[(i \div WordWidth) + 1] = WordOr(@, 2 ^ (i % WordWidth))]

\* W{n}: the array whose word 0 holds the word n
FromWord(N, n) == set_word(Zero(N), 0, n)

(***************************************************************************)
(* Reading a value as a number (used by the properties, not by the code).  *)
(***************************************************************************)
RECURSIVE WordsToNat(_, _)
WordsToNat(ws, i) ==
    IF i > Len(ws) THEN 0
    ELSE ws[i] * (2 ^ (WordWidth * (i - 1))) + WordsToNat(ws, i + 1)

\* the number all storage bits denote, padding bits included
ToNat(x) == WordsToNat(x.words, 1)

\* the two's-complement reading of the N significant bits
ToInt(x) ==
    LET n == ToNat(x) % (2 ^ x.width)
    IN IF n >= 2 ^ (x.width - 1) THEN n - 2 ^ x.width ELSE n

\* the N-bit array holding n, 0 <= n < 2^N
FromNat(N, n) ==
    [width |-> N,
     words |-> [i \in 1..word_count(N) |-> (n \div (2 ^ (WordWidth * (i - 1)))) % WordMod]]

\* every well-formed N-bit array
Arrays(N) == {FromNat(N, n) : n \in 0..((2 ^ N) - 1)}

\* x mod m for an integer x and m > 0, in 0..m-1
Mod(x, m) == ((x % m) + m) % m

\* the absolute value of an integer
Abs(x) == IF x < 0 THEN 0 - x ELSE x

\* no storage bit above position width-1 is set
WellFormed(x) ==
    /\ Len(x.words) = word_count(x.width)
    /\ \A i \in 0..(word_count(x.width) - 1) :
          word(x, i) = WordAnd(word(x, i), word_mask(x.width, i))

(***************************************************************************)
(* width_cast.                                                             *)
(***************************************************************************)
\* width_cast that copies the storage words without masking the top word
width_cast_unmasked(M, x) ==
    [width |-> M,
     words |-> [i \in 1..word_count(M) |->
                  IF i <= word_count(x.width) THEN x.words[i] ELSE 0]]

\* word arrays and unsigned integers: zero-extend or truncate
width_cast(M, x) ==
    [width |-> M,
     words |-> [i \in 1..word_count(M) |->
                  IF i <= word_count(x.width)
                  THEN WordAnd(x.words[i], word_mask(M, i - 1))
                  ELSE 0]]

(***************************************************************************)
(* Bitwise operations and shifts on word arrays.                           *)
(***************************************************************************)
\* NotLoop storing the complemented word without the re-masking set_word does
RECURSIVE NotLoopUnmasked(_, _, _)
NotLoopUnmasked(x, acc, counter) ==
    IF counter >= word_count(x.width) THEN acc
    ELSE NotLoopUnmasked(x, [acc EXCEPT !.words[counter + 1] = WordNot(word(x, counter))],
                         counter + 1)

RECURSIVE NotLoop(_, _, _)
NotLoop(x, acc, counter) ==
    IF counter >= word_count(x.width) THEN acc
    ELSE NotLoop(x, set_word(acc, counter, WordNot(word(x, counter))), counter + 1)

op_not(x) == NotLoop(x, Zero(x.width), 0)

\* ShlLoop without the bits that move in from the next lower word
RECURSIVE ShlLoopNoCarry(_, _, _, _, _, _)
ShlLoopNoCarry(lhs, shifted, skip_words, shift_word_left, shift_word_right, counter) ==
    IF counter = 0 THEN shifted
    ELSE IF counter + skip_words < word_count(lhs.width)
         THEN ShlLoopNoCarry(lhs,
                             set_word(shifted, counter + skip_words,
                                      WordShl(word(lhs, counter), shift_word_left)),
                             skip_words, shift_word_left, shift_word_right, counter - 1)
         ELSE ShlLoopNoCarry(lhs, shifted, skip_words, shift_word_left, shift_word_right,
                             counter - 1)

RECURSIVE ShlLoop(_, _, _, _, _, _)
ShlLoop(lhs, shifted, skip_words, shift_word_left, shift_word_right, counter) ==
    IF counter = 0 THEN shifted
    ELSE IF counter + skip_words < word_count(lhs.width)
         THEN LET w0 == WordShl(word(lhs, counter), shift_word_left)
                  new_word == IF shift_word_right < WordWidth
                              THEN WordOr(w0, WordShr(word(lhs, counter - 1), shift_word_right))
                              ELSE w0
              IN ShlLoop(lhs, set_word(shifted, counter + skip_words, new_word),
                         skip_words, shift_word_left, shift_word_right, counter - 1)
         ELSE ShlLoop(lhs, shifted, skip_words, shift_word_left, shift_word_right, counter - 1)

\* operator<<(lhs, rhs)
op_shl(lhs, n) ==
    IF n >= lhs.width THEN FromWord(lhs.width, 0)
    ELSE IF n = 0 THEN lhs
    ELSE LET skip_words == n \div WordWidth
             shift_word_left == n - skip_words * WordWidth
             shift_word_right == WordWidth - shift_word_left
             looped == ShlLoop(lhs, Zero(lhs.width), skip_words, shift_word_left,
                               shift_word_right, word_count(lhs.width))
         IN set_word(looped, skip_words, WordShl(word(lhs, 0), shift_word_left))

RECURSIVE ShrLoop(_, _, _, _, _, _)
ShrLoop(lhs, shifted, skip_words, shift_word_right, shift_word_left, counter) ==
    IF counter >= word_count(lhs.width) THEN shifted
    ELSE LET w0 == WordShr(word(lhs, counter), shift_word_right)
             new_word == IF shift_word_left < WordWidth /\ counter + 1 < word_count(lhs.width)
                         THEN WordOr(w0, WordShl(word(lhs, counter + 1), shift_word_left))
                         ELSE w0
         IN ShrLoop(lhs, set_word(shifted, counter - skip_words, new_word),
                    skip_words, shift_word_right, shift_word_left, counter + 1)

\* operator>>(lhs, rhs), the logical right shift of word arrays and unsigned integers
op_shr(lhs, n) ==
    IF n >= lhs.width THEN FromWord(lhs.width, 0)
    ELSE IF n = 0 THEN lhs
    ELSE LET skip_words == n \div WordWidth
             shift_word_right == n - skip_words * WordWidth
             shift_word_left == WordWidth - shift_word_right
             looped == ShrLoop(lhs, Zero(lhs.width), skip_words, shift_word_right,
                               shift_word_left, skip_words)
         IN set_word(looped, word_count(lhs.width) - skip_words - 1,
                     WordShr(word(lhs, word_count(lhs.width) - 1), shift_word_right))

\* bit_range without the shift down to index E
bit_range_no_shift(S, E, w) == width_cast((S - E) + 1, w)

\* bit_range<S, E>(w)
bit_range(S, E, w) == width_cast((S - E) + 1, op_shr(w, E))

RECURSIVE AndLoop(_, _, _, _)
AndLoop(lhs, r, acc, counter) ==
    IF counter >= word_count(lhs.width) THEN acc
    ELSE AndLoop(lhs, r, set_word(acc, counter, WordAnd(word(lhs, counter), word(r, counter))),
                 counter + 1)

\* operator&(lhs, rhs)
op_and(lhs, r) == AndLoop(lhs, r, Zero(lhs.width), 0)

RECURSIVE OrLoop(_, _, _, _)
OrLoop(lhs, r, acc, counter) ==
    IF counter >= word_count(lhs.width) THEN acc
    ELSE OrLoop(lhs, r, set_word(acc, counter, WordOr(word(lhs, counter), word(r, counter))),
                counter + 1)

\* operator|(lhs, rhs)
op_or(lhs, r) == OrLoop(lhs, r, Zero(lhs.width), 0)

RECURSIVE XorLoop(_, _, _, _)
XorLoop(lhs, r, acc, counter) ==
    IF counter >= word_count(lhs.width) THEN acc
    ELSE XorLoop(lhs, r, set_word(acc, counter, WordXor(word(lhs, counter), word(r, counter))),
                 counter + 1)

\* operator^(lhs, rhs)
op_xor(lhs, r) == XorLoop(lhs, r, Zero(lhs.width), 0)

(***************************************************************************)
(* Signed integers: the container read in two's complement.                *)
(***************************************************************************)
is_negative(x) == bit(x, x.width - 1) = 1

is_zero(x) == \A i \in 0..(word_count(x.width) - 1) : word(x, i) = 0

\* sinteger<N>::zero()
zero(N) == Zero(N)

\* sinteger<N>::one(), sinteger<N>(1U)
one(N) == FromWord(N, 1)

\* sinteger<N>::all_ones()
all_ones(N) == [width |-> N, words |-> [i \in 1..word_count(N) |-> word_mask(N, i - 1)]]

\* width_cast of a signed integer: sign-extend on grow, truncate on shrink
width_cast_signed(M, x) ==
    IF M <= x.width THEN width_cast(M, x)
    ELSE IF is_negative(x)
         THEN FromNat(M, ToNat(x) + (2 ^ M) - (2 ^ x.width))
         ELSE width_cast(M, x)

\* the converting constructors integer<M>(const integer<N>&) and
\* integer<M>(const word_array<N>&): the storage words are copied
Construct(M, x) == width_cast(M, x)

\* AddLoop that loses the carry produced by adding the incoming carry
RECURSIVE AddLoopLostCarry(_, _, _, _, _)
AddLoopLostCarry(a_, b_, sum, carry, i) ==
    IF i >= word_count(a_.width) THEN sum
    ELSE LET word_a == word(a_, i)
             word_b == word(b_, i)
             partial_sum0 == (word_a + word_b) % WordMod
             new_carry == IF partial_sum0 < word_a \/ partial_sum0 < word_b THEN 1 ELSE 0
             partial_sum == (partial_sum0 + carry) % WordMod
         IN AddLoopLostCarry(a_, b_, set_word(sum, i, partial_sum), new_carry, i + 1)

\* the word-wise ripple of expanding_add
RECURSIVE AddLoop(_, _, _, _, _)
AddLoop(a_, b_, sum, carry, i) ==
    IF i >= word_count(a_.width) THEN sum
    ELSE LET word_a == word(a_, i)
             word_b == word(b_, i)
             partial_sum0 == (word_a + word_b) % WordMod
             new_carry == IF partial_sum0 < word_a \/ partial_sum0 < word_b THEN 1 ELSE 0
             partial_sum == (partial_sum0 + carry) % WordMod
             carry_out == IF new_carry = 1 \/ partial_sum < word_a \/ partial_sum < word_b
                          THEN 1 ELSE 0
         IN AddLoop(a_, b_, set_word(sum, i, partial_sum), carry_out, i + 1)

\* expanding_add(a, b, initial_carry) on signed integers
expanding_add(x, y, initial_carry) ==
    LET res_width == Max(x.width, y.width) + 1
    IN AddLoop(width_cast_signed(res_width, x), width_cast_signed(res_width, y),
               Zero(res_width), IF initial_carry THEN 1 ELSE 0, 0)

\* add(a, b) on signed integers of one width
add(x, y) == width_cast_signed(x.width, expanding_add(x, y, FALSE))

\* operator-(n), the negation
op_neg(n) == add(op_not(n), one(n.width))

\* sub adding the one's complement of b, without the increment
sub_ones_complement(x, y) == add(x, op_not(y))

\* sub(a, b) on signed integers of one width
sub(x, y) ==
    LET minus_b == add(op_not(y), one(y.width))
    IN add(x, minus_b)

RECURSIVE AshrLoop(_, _, _, _, _, _)
AshrLoop(lhs, shifted, skip_words, shift_word_right, shift_word_left, counter) ==
    IF counter >= word_count(lhs.width) THEN shifted
    ELSE LET w0 == WordShr(word(lhs, counter), shift_word_right)
             new_word == IF shift_word_left < WordWidth /\ counter + 1 < word_count(lhs.width)
                         THEN WordOr(w0, WordShl(word(lhs, counter + 1), shift_word_left))
                         ELSE w0
         IN AshrLoop(lhs, set_word(shifted, counter - skip_words, new_word),
                     skip_words, shift_word_right, shift_word_left, counter + 1)

\* the sign fill left out: the vacated bits stay zero
SignFillNone(shifted, i, lowest) == shifted

\* for (i = Width - 1; i >= Width - rhs; --i) shifted.set_bit(i)
RECURSIVE SignFillLoop(_, _, _)
SignFillLoop(shifted, i, lowest) ==
    IF i < lowest THEN shifted
    ELSE SignFillLoop(set_bit(shifted, i), i - 1, lowest)

\* operator>>(lhs, rhs) on signed integers, the arithmetic right shift
op_ashr(lhs, n) ==
    IF n >= lhs.width
    THEN (IF is_negative(lhs) THEN all_ones(lhs.width) ELSE FromWord(lhs.width, 0))
    ELSE IF n = 0 THEN lhs
    ELSE LET shifted0 == IF is_zero(lhs) THEN all_ones(lhs.width) ELSE Zero(lhs.width)
             skip_words == n \div WordWidth
             shift_word_right == n - skip_words * WordWidth
             shift_word_left == WordWidth - shift_word_right
             looped == AshrLoop(lhs, shifted0, skip_words, shift_word_right,
                                shift_word_left, skip_words)
             last == set_word(looped, word_count(lhs.width) - skip_words - 1,
                              WordShr(word(lhs, word_count(lhs.width) - 1), shift_word_right))
         IN IF is_negative(lhs)
            THEN SignFillLoop(last, lhs.width - 1, lhs.width - n)
            ELSE last

(***************************************************************************)
(* Comparisons.                                                            *)
(***************************************************************************)
\* for (i = 0; i < min_count; ++i) if (a.word(i) != b.word(i)) return false
RECURSIVE EqWordsLoop(_, _, _, _)
EqWordsLoop(x, y, i, min_count) ==
    IF i >= min_count THEN TRUE
    ELSE IF word(x, i) # word(y, i) THEN FALSE
    ELSE EqWordsLoop(x, y, i + 1, min_count)

\* HighWordsZeroLoop that never looks at the wider operand's extra words
HighWordsIgnored(x, i, max_count) == TRUE

\* for (i = min_count; i < max_count; ++i) if (x.word(i) != 0U) return false
RECURSIVE HighWordsZeroLoop(_, _, _)
HighWordsZeroLoop(x, i, max_count) ==
    IF i >= max_count THEN TRUE
    ELSE IF word(x, i) # 0 THEN FALSE
    ELSE HighWordsZeroLoop(x, i + 1, max_count)

\* operator==(uinteger<W>, uinteger<V>)
op_eq_unsigned(x, y) ==
    LET min_count == Min(word_count(x.width), word_count(y.width))
        max_count == Max(word_count(x.width), word_count(y.width))
    IN IF ~EqWordsLoop(x, y, 0, min_count) THEN FALSE
       ELSE IF x.width > y.width THEN HighWordsZeroLoop(x, min_count, max_count)
       ELSE HighWordsZeroLoop(y, min_count, max_count)

\* big-endian word compare: 1 when a word of x is smaller first, 2 when larger, 0 when equal
RECURSIVE CompareWordsLoop(_, _, _)
CompareWordsLoop(x, y, i) ==
    IF i = 0 THEN 0
    ELSE IF word(x, i - 1) < word(y, i - 1) THEN 1
    ELSE IF word(x, i - 1) > word(y, i - 1) THEN 2
    ELSE CompareWordsLoop(x, y, i - 1)

\* operator<(uinteger<W>, uinteger<V>)
op_lt_unsigned(x, y) ==
    LET words_W == word_count(x.width)
        words_V == word_count(y.width)
    IN IF words_W = words_V
       THEN CompareWordsLoop(x, y, words_W) = 1
       ELSE LET max_width == Max(x.width, y.width)
                a_ == Construct(max_width, width_cast(max_width, x))
                b_ == Construct(max_width, width_cast(max_width, y))
            IN CompareWordsLoop(a_, b_, word_count(max_width)) = 1

\* the words of the wider operand above the narrower one: the sign extension
\* (the word's mask) for negative numbers, zero otherwise
RECURSIVE HighWordsSignedLoop(_, _, _, _)
HighWordsSignedLoop(x, numbers_are_negative, i, max_count) ==
    IF i >= max_count THEN TRUE
    ELSE IF numbers_are_negative /\ word(x, i) # word_mask(x.width, i) THEN FALSE
    ELSE IF ~numbers_are_negative /\ word(x, i) # 0 THEN FALSE
    ELSE HighWordsSignedLoop(x, numbers_are_negative, i + 1, max_count)

\* the words both operands have
RECURSIVE LowWordsSignedLoop(_, _, _, _, _)
LowWordsSignedLoop(x, y, numbers_are_negative, i, min_count) ==
    IF i >= min_count THEN TRUE
    ELSE IF numbers_are_negative
         THEN IF x.width > y.width
              THEN IF WordAnd(word(x, i), word_mask(y.width, i)) # word(y, i) THEN FALSE
                   ELSE LowWordsSignedLoop(x, y, numbers_are_negative, i + 1, min_count)
              ELSE IF word(x, i) # WordAnd(word(y, i), word_mask(x.width, i)) THEN FALSE
                   ELSE LowWordsSignedLoop(x, y, numbers_are_negative, i + 1, min_count)
         ELSE IF word(x, i) # word(y, i) THEN FALSE
              ELSE LowWordsSignedLoop(x, y, numbers_are_negative, i + 1, min_count)

\* operator==(integer<W>, integer<V>)
op_eq_signed(x, y) ==
    LET min_count == Min(word_count(x.width), word_count(y.width))
        max_count == Max(word_count(x.width), word_count(y.width))
        numbers_are_negative == is_negative(x)
    IN IF is_negative(x) # is_negative(y) THEN FALSE
       ELSE IF ~(IF x.width > y.width
                 THEN HighWordsSignedLoop(x, numbers_are_negative, min_count, max_count)
                 ELSE HighWordsSignedLoop(y, numbers_are_negative, min_count, max_count))
            THEN FALSE
       ELSE LowWordsSignedLoop(x, y, numbers_are_negative, 0, min_count)

\* the big-endian loop of the signed operator<: the first differing word decides
RECURSIVE LessSignedLoop(_, _, _, _)
LessSignedLoop(x, y, both_positive, i) ==
    IF i = 0 THEN FALSE
    ELSE IF word(x, i - 1) > word(y, i - 1) THEN ~both_positive
    ELSE IF word(x, i - 1) < word(y, i - 1) THEN both_positive
    ELSE LessSignedLoop(x, y, both_positive, i - 1)

\* operator<(integer<W>, integer<V>)
op_lt_signed(x, y) ==
    IF is_negative(x) /\ ~is_negative(y) THEN TRUE
    ELSE IF ~is_negative(x) /\ is_negative(y) THEN FALSE
    ELSE LET both_positive == ~is_negative(x)
             words_W == word_count(x.width)
             words_V == word_count(y.width)
         IN IF words_W = words_V
            THEN LessSignedLoop(x, y, both_positive, words_W)
            ELSE LET max_width == Max(x.width, y.width)
                     a_ == width_cast_signed(max_width, x)
                     b_ == width_cast_signed(max_width, y)
                 IN LessSignedLoop(a_, b_, both_positive, word_count(max_width))

\* operator<=, operator>= and operator> derive from < and ==
op_le_unsigned(x, y) == op_lt_unsigned(x, y) \/ op_eq_unsigned(x, y)

op_ge_unsigned(x, y) == op_le_unsigned(y, x)

op_gt_unsigned(x, y) == op_lt_unsigned(y, x)

op_le_signed(x, y) == op_lt_signed(x, y) \/ op_eq_signed(x, y)

op_ge_signed(x, y) == op_le_signed(y, x)

op_gt_signed(x, y) == op_lt_signed(y, x)

(***************************************************************************)
(* Signed multiplication and division.                                     *)
(***************************************************************************)
RECURSIVE BoothLoop(_, _, _, _, _)
BoothLoop(P, A, S, i, V) ==
    IF i >= V THEN P
    ELSE LET last_bit == bit(P, 0) = 1
             snd_last_bit == bit(P, 1) = 1
             P1 == IF snd_last_bit /\ ~last_bit THEN add(P, S) ELSE P
             P2 == IF ~snd_last_bit /\ last_bit THEN add(P1, A) ELSE P1
         IN BoothLoop(op_ashr(P2, 1), A, S, i + 1, V)

\* Booth's algorithm on a register of W + V + 1 bits, without the extra bit
\* that makes room for the negated most negative multiplicand
expanding_mul_plain_booth(m, r) ==
    LET W == m.width
        V == r.width
        K == W + V + 1
        A0 == Construct(K, m)
        A == op_shl(A0, V + 1)
        S == op_shl(op_neg(A0), V + 1)
        P == op_shl(Construct(K, r), 1)
    IN width_cast_signed(W + V, op_ashr(BoothLoop(P, A, S, 0, V), 1))

\* expanding_mul(m, r) on signed integers
expanding_mul(m, r) ==
    LET W == m.width
        V == r.width
        K == W + V + 2
        A0 == Construct(K, width_cast_signed(W + 1, m))
        S0 == op_neg(A0)
        A == op_shl(A0, V + 1)
        S == op_shl(S0, V + 1)
        P == op_shl(Construct(K, r), 1)
    IN width_cast_signed(W + V, op_ashr(BoothLoop(P, A, S, 0, V), 1))

\* mul(a, b) on signed integers of one width
mul(x, y) == width_cast_signed(x.width, expanding_mul(x, y))

\* expanding_abs that copies the bits of a negative n without negating it
expanding_abs_no_negate(n) == Construct(n.width, n)

\* expanding_abs(n): the absolute value as an unsigned integer of the same width
expanding_abs(n) == Construct(n.width, IF is_negative(n) THEN op_neg(n) ELSE n)

\* the restoring loop of the unsigned division on numbers, most significant
\* bit of the numerator first; the pair <<Q, R>>
RECURSIVE RestoringLoop(_, _, _, _, _)
RestoringLoop(N, D, i, Q, R) ==
    IF i = 0 THEN <<Q, R>>
    ELSE LET R1 == 2 * R + ((N \div (2 ^ (i - 1))) % 2)
         IN IF R1 >= D
            THEN RestoringLoop(N, D, i - 1, Q + 2 ^ (i - 1), R1 - D)
            ELSE RestoringLoop(N, D, i - 1, Q, R1)

\* restoring_division on unsigned integers (a non-zero denominator)
restoring_division_unsigned(N, D) ==
    LET QR == RestoringLoop(ToNat(N), ToNat(D), N.width, 0, 0)
    IN <<FromNat(N.width, QR[1]), FromNat(N.width, QR[2])>>

\* restoring_division with the zero-numerator fast path tested before the
\* zero denominator
restoring_division_numerator_first(numerator, denominator) ==
    LET W == numerator.width
    IN IF is_zero(numerator)
       THEN [threw |-> FALSE, quotient |-> zero(W), remainder |-> zero(W)]
       ELSE IF is_zero(denominator)
       THEN [threw |-> TRUE, quotient |-> zero(W), remainder |-> zero(W)]
       ELSE IF op_eq_signed(denominator, one(W))
       THEN [threw |-> FALSE, quotient |-> numerator, remainder |-> zero(W)]
       ELSE IF op_eq_signed(numerator, denominator)
       THEN [threw |-> FALSE, quotient |-> one(W), remainder |-> zero(W)]
       ELSE LET negate == is_negative(numerator) # is_negative(denominator)
                N == expanding_abs(numerator)
                D == Construct(W, expanding_abs(denominator))
            IN IF op_lt_unsigned(N, D)
               THEN [threw |-> FALSE, quotient |-> zero(W), remainder |-> numerator]
               ELSE LET div_ == restoring_division_unsigned(N, D)
                        Q0 == Construct(W + 1, div_[1])
                        remainder_ == Construct(W + 1, div_[2])
                        Q == IF negate THEN op_neg(Q0) ELSE Q0
                    IN [threw |-> FALSE,
                        quotient |-> width_cast_signed(W, Q),
                        remainder |-> width_cast_signed(W, remainder_)]

\* restoring_division with the absolute values compared as signed integers
restoring_division_signed_less(numerator, denominator) ==
    LET W == numerator.width
    IN IF is_zero(denominator)
       THEN [threw |-> TRUE, quotient |-> zero(W), remainder |-> zero(W)]
       ELSE IF is_zero(numerator)
       THEN [threw |-> FALSE, quotient |-> zero(W), remainder |-> zero(W)]
       ELSE IF op_eq_signed(denominator, one(W))
       THEN [threw |-> FALSE, quotient |-> numerator, remainder |-> zero(W)]
       ELSE IF op_eq_signed(numerator, denominator)
       THEN [threw |-> FALSE, quotient |-> one(W), remainder |-> zero(W)]
       ELSE LET negate == is_negative(numerator) # is_negative(denominator)
                N == expanding_abs(numerator)
                D == Construct(W, expanding_abs(denominator))
            IN IF op_lt_signed(N, D)
               THEN [threw |-> FALSE, quotient |-> zero(W), remainder |-> numerator]
               ELSE LET div_ == restoring_division_unsigned(N, D)
                        Q0 == Construct(W + 1, div_[1])
                        remainder_ == Construct(W + 1, div_[2])
                        Q == IF negate THEN op_neg(Q0) ELSE Q0
                    IN [threw |-> FALSE,
                        quotient |-> width_cast_signed(W, Q),
                        remainder |-> width_cast_signed(W, remainder_)]

\* restoring_division(numerator, denominator) on signed integers:
\* [threw, quotient, remainder]
restoring_division(numerator, denominator) ==
    LET W == numerator.width
    IN IF is_zero(denominator)
       THEN [threw |-> TRUE, quotient |-> zero(W), remainder |-> zero(W)]
       ELSE IF is_zero(numerator)
       THEN [threw |-> FALSE, quotient |-> zero(W), remainder |-> zero(W)]
       ELSE IF op_eq_signed(denominator, one(W))
       THEN [threw |-> FALSE, quotient |-> numerator, remainder |-> zero(W)]
       ELSE IF op_eq_signed(numerator, denominator)
       THEN [threw |-> FALSE, quotient |-> one(W), remainder |-> zero(W)]
       ELSE LET negate == is_negative(numerator) # is_negative(denominator)
                N == expanding_abs(numerator)
                D == Construct(W, expanding_abs(denominator))
            IN IF op_lt_unsigned(N, D)
               THEN [threw |-> FALSE, quotient |-> zero(W), remainder |-> numerator]
               ELSE LET div_ == restoring_division_unsigned(N, D)
                        Q0 == Construct(W + 1, div_[1])
                        remainder_ == Construct(W + 1, div_[2])
                        Q == IF negate THEN op_neg(Q0) ELSE Q0
                    IN [threw |-> FALSE,
                        quotient |-> width_cast_signed(W, Q),
                        remainder |-> width_cast_signed(W, remainder_)]

\* remainder(numerator, denominator): [threw, value]
remainder(numerator, denominator) ==
    LET d == restoring_division(numerator, denominator)
    IN [threw |-> d.threw, value |-> d.remainder]

\* div(numerator, denominator): [threw, value]
div(numerator, denominator) ==
    LET d == restoring_division(numerator, denominator)
    IN [threw |-> d.threw, value |-> d.quotient]

\* the loop of count_leading_zeroes, from bit i - 1 downwards
RECURSIVE ClzLoop(_, _)
ClzLoop(value, i) ==
    IF i > 0
    THEN IF bit(value, i - 1) = 1
         THEN value.width - i
         ELSE ClzLoop(value, i - 1)
    ELSE value.width

\* count_leading_zeroes with the scan started one bit too low
count_leading_zeroes_skip_top(value) == ClzLoop(value, value.width - 1)

\* count_leading_zeroes(value)
count_leading_zeroes(value) == ClzLoop(value, value.width)

\* the loop of first_set_bit: counts while (value >> first_bit) is non-zero
RECURSIVE FirstSetBitLoop(_, _)
FirstSetBitLoop(value, first_bit) ==
    IF ~is_zero(op_shr(value, first_bit))
    THEN FirstSetBitLoop(value, first_bit + 1)
    ELSE first_bit

\* first_set_bit(value)
first_set_bit(value) == FirstSetBitLoop(value, 0)

(***************************************************************************)
(* Posits and positparams.  A posit P<N, ES> is its N-bit pattern; a        *)
(* positparams is a record [is_nar, is_zero, sign_bit, scale, fraction]     *)
(* with scale a signed integer of N bits and fraction the bits of a         *)
(* fractional: IntegerSize integer bits above FractionSize(N) fraction bits.*)
(***************************************************************************)
\* the integer part of a fractional: the carry bit and the hidden bit
IntegerSize == 2

\* the fraction part of a fractional of P<N, ES>
FractionSize(N) == N

\* the N-bit two's complement pattern of the integer x
FromInt(N, x) == FromNat(N, Mod(x, 2 ^ N))

\* set_bit(i, value): bit i becomes value
set_bit_value(x, i, value) ==
    LET w == x.words[(i \div WordWidth) + 1]
        m == 2 ^ (i % WordWidth)
    IN IF value
       THEN [x EXCEPT !.words[(i \div WordWidth) + 1] = WordOr(w, m)]
       ELSE [x EXCEPT !.words[(i \div WordWidth) + 1] = WordAnd(w, WordNot(m))]

\* posit::nar(): only the sign bit set
nar(N) == set_bit(Zero(N), N - 1)

\* posit::max(): every bit but the sign bit set
max_pos(N) == op_not(nar(N))

\* posit::is_nar, posit::is_zero, posit::is_negative
posit_is_nar(p) == p = nar(p.width)

posit_is_zero(p) == is_zero(p)

posit_is_negative(p) == is_negative(p) /\ ~posit_is_nar(p)

\* unary minus of a posit: the two's complement of the pattern
posit_neg(p) == op_neg(p)

\* incremented_real: the next pattern, without clamping at the NaR boundary
incremented_real_unclamped(p) == add(p, one(p.width))

\* incremented_real: the next pattern, clamped to max_pos instead of NaR
incremented_real(p) ==
    LET next == add(p, one(p.width))
    IN IF posit_is_nar(next) THEN max_pos(p.width) ELSE next

\* the number of bits equal to first from bit i downwards
RECURSIVE RegimeRun(_, _, _)
RegimeRun(q, i, first) ==
    IF i < 0 \/ bit(q, i) # first THEN 0
    ELSE 1 + RegimeRun(q, i - 1, first)

\* the pattern of |p|, whose fields are decoded
posit_abs(p) == IF is_negative(p) THEN posit_neg(p) ELSE p

\* the regime value k of a non-zero, non-NaR posit
get_regime_value(p) ==
    LET q == posit_abs(p)
        first == bit(q, p.width - 2)
        r == RegimeRun(q, p.width - 2, first)
    IN IF first = 1 THEN r - 1 ELSE 0 - r

\* the index of the first bit after the regime and its terminating bit
AfterRegime(p) ==
    LET q == posit_abs(p)
    IN (p.width - 2) - RegimeRun(q, p.width - 2, bit(q, p.width - 2)) - 1

\* the exponent bits below index i, missing bits read as zero
RECURSIVE ExponentValue(_, _, _)
ExponentValue(q, i, left) ==
    IF left = 0 THEN 0
    ELSE (IF i >= 0 THEN bit(q, i) ELSE 0) * (2 ^ (left - 1))
         + ExponentValue(q, i - 1, left - 1)

\* get_scale_value(p) = k * 2^ES + e, as a signed integer of N bits
get_scale_value(ES, p) ==
    FromInt(p.width, get_regime_value(p) * (2 ^ ES)
                     + ExponentValue(posit_abs(p), AfterRegime(p), ES))

\* fractional(p): hidden bit 1, the fraction bits of p left-aligned below it
fractional(ES, p) ==
    LET F == FractionSize(p.width)
        nf == Max(0, (AfterRegime(p) - ES) + 1)
        f == ToNat(posit_abs(p)) % (2 ^ nf)
    IN FromNat(IntegerSize + F, (2 ^ F) + f * (2 ^ (F - nf)))

\* the fraction_bits and integer_bits views of a fractional
fraction_bits(fr) == width_cast(fr.width - IntegerSize, fr)

integer_bits(fr) == width_cast(IntegerSize, op_shr(fr, fr.width - IntegerSize))

\* a default-constructed positparams of P<N, ES>
DefaultParams(N) ==
    [is_nar |-> FALSE, is_zero |-> FALSE, sign_bit |-> FALSE,
     scale |-> zero(N), fraction |-> Zero(IntegerSize + FractionSize(N))]

\* the positparams slot of the specifications without posits
NoParams == DefaultParams(1)

\* positparams::zero()
params_zero(N) == [DefaultParams(N) EXCEPT !.is_zero = TRUE]

\* positparams(const posit& p)
positparams(ES, p) ==
    IF posit_is_nar(p)
    THEN [DefaultParams(p.width) EXCEPT !.is_nar = TRUE, !.is_zero = FALSE]
    ELSE IF posit_is_zero(p)
    THEN [DefaultParams(p.width) EXCEPT !.is_nar = FALSE, !.is_zero = TRUE]
    ELSE [is_nar |-> FALSE, is_zero |-> FALSE,
          sign_bit |-> posit_is_negative(p),
          scale |-> get_scale_value(ES, p),
          fraction |-> fractional(ES, p)]

\* abs(n) on signed integers
abs(n) == IF is_negative(n) THEN op_neg(n) ELSE n

\* floordiv(x, y): the floor of x / y, as a signed integer of x's width
floordiv(x, y) ==
    LET n == IF ToInt(y) < 0 THEN 0 - ToInt(x) ELSE ToInt(x)
        d == Abs(ToInt(y))
    IN FromInt(x.width, (n - Mod(n, d)) \div d)

\* absmod(x, y): the non-negative remainder of x / y
absmod(x, y) == FromInt(x.width, Mod(ToInt(x), Abs(ToInt(y))))

\* the regime loop with every regime bit equal to first_regime_bit
RECURSIVE RegimeLoopNoTerminator(_, _, _, _, _)
RegimeLoopNoTerminator(bits, i, ridx, nregime, first_regime_bit) ==
    IF op_lt_signed(ridx, nregime) /\ i >= 0
    THEN RegimeLoopNoTerminator(set_bit_value(bits, i, first_regime_bit), i - 1,
                                add(ridx, one(ridx.width)), nregime,
                                first_regime_bit)
    ELSE <<bits, i>>

\* for (ridx = 0; ridx < nregime && i >= 0; ++ridx, --i): the regime bits;
\* the pair <<bits, i>>
RECURSIVE RegimeLoop(_, _, _, _, _)
RegimeLoop(bits, i, ridx, nregime, first_regime_bit) ==
    IF op_lt_signed(ridx, nregime) /\ i >= 0
    THEN LET last_regime_bit ==
                 op_eq_signed(ridx, sub(nregime, one(nregime.width)))
             value == IF last_regime_bit THEN ~first_regime_bit
                      ELSE first_regime_bit
         IN RegimeLoop(set_bit_value(bits, i, value), i - 1,
                       add(ridx, one(ridx.width)), nregime, first_regime_bit)
    ELSE <<bits, i>>

\* for (eprinted = 0; eprinted < es && i >= 0; ++eprinted, --i): the
\* exponent bits; the pair <<bits, i>>
RECURSIVE ExponentLoop(_, _, _, _, _)
ExponentLoop(bits, i, eprinted, es_, exponent) ==
    IF eprinted < es_ /\ i >= 0
    THEN ExponentLoop(set_bit_value(bits, i, bit(exponent, (es_ - 1) - eprinted) = 1),
                      i - 1, eprinted + 1, es_, exponent)
    ELSE <<bits, i>>

\* for (fidx = width - 1; fidx >= 0 && i >= 0; --fidx, --i): the fraction
\* bits; the pair <<bits, i>>
RECURSIVE FractionLoop(_, _, _, _)
FractionLoop(bits, i, fidx, fbits) ==
    IF fidx >= 0 /\ i >= 0
    THEN FractionLoop(set_bit_value(bits, i, bit(fbits, fidx) = 1),
                      i - 1, fidx - 1, fbits)
    ELSE <<bits, i>>

\* the bitstring built without stepping over the sign position first
encode_bits_sign_not_skipped(ES, pp) ==
    LET N == pp.scale.width
        powes == FromInt(N, 2 ^ ES)
        regime == floordiv(pp.scale, powes)
        exponent == absmod(pp.scale, powes)
        negative_scale == op_lt_signed(pp.scale, zero(N))
        nregime == IF negative_scale
                   THEN add(abs(regime), one(N))
                   ELSE add(add(regime, one(N)), one(N))
        first_regime_bit == ~negative_scale
        r == RegimeLoop(Zero(N + ES + 3), (N + ES + 3) - 1, zero(N),
                        nregime, first_regime_bit)
        e == ExponentLoop(r[1], r[2], 0, ES, exponent)
        fbits == fraction_bits(pp.fraction)
        f == FractionLoop(e[1], e[2], fbits.width - 1, fbits)
    IN f[1]

\* the bitstring of N + ES + 3 bits that operator posit builds from the
\* scale and the fraction of a finite positparams
encode_bits(ES, pp) ==
    LET N == pp.scale.width
        powes == FromInt(N, 2 ^ ES)
        regime == floordiv(pp.scale, powes)
        exponent == absmod(pp.scale, powes)
        negative_scale == op_lt_signed(pp.scale, zero(N))
        nregime == IF negative_scale
                   THEN add(abs(regime), one(N))
                   ELSE add(add(regime, one(N)), one(N))
        first_regime_bit == ~negative_scale
        r == RegimeLoop(Zero(N + ES + 3), ((N + ES + 3) - 1) - 1, zero(N),
                        nregime, first_regime_bit)
        e == ExponentLoop(r[1], r[2], 0, ES, exponent)
        fbits == fraction_bits(pp.fraction)
        f == FractionLoop(e[1], e[2], fbits.width - 1, fbits)
    IN f[1]

\* posit_bits: the top N bits of the bitstring, the unrounded posit
posit_bits(N, ES, bits) == width_cast(N, op_shr(bits, ES + 3))

\* last && after || after && tail: the unrounded posit is incremented
rounds_up(ES, bits, pbits) ==
    LET truncated == width_cast(ES + 3, bits)
        last == bit(pbits, 0) = 1
        after == bit(truncated, truncated.width - 1) = 1
        tail == ~is_zero(width_cast((ES + 3) - 1, truncated))
    IN (last /\ after) \/ (after /\ tail)

\* the rounding step: the unrounded posit x0, incremented when rounds_up
rounded(ES, bits, x0) ==
    IF rounds_up(ES, bits, x0) THEN incremented_real(x0) ELSE x0

\* the two's complement of the rounded posit for a negative value
signed_posit(sign_bit, x) == IF sign_bit THEN posit_neg(x) ELSE x

\* operator posit() of a positparams
to_posit(ES, pp) ==
    IF pp.is_nar THEN nar(pp.scale.width)
    ELSE IF pp.is_zero THEN Zero(pp.scale.width)
    ELSE signed_posit(pp.sign_bit,
                      rounded(ES, encode_bits(ES, pp),
                              posit_bits(pp.scale.width, ES, encode_bits(ES, pp))))

(***************************************************************************)
(* Addition of positparams.                                                *)
(***************************************************************************)
\* fractional: operator+, operator-, the shifts and the comparisons, on the
\* bits of the fractional read as an unsigned number
frac_add(l, r) == FromNat(l.width, (ToNat(l) + ToNat(r)) % (2 ^ l.width))

frac_sub(l, r) == FromNat(l.width, Mod(ToNat(l) - ToNat(r), 2 ^ l.width))

frac_shr(fr, n) == op_shr(fr, n)

frac_shl(fr, n) == op_shl(fr, n)

frac_less(l, r) == ToNat(l) < ToNat(r)

frac_equal(l, r) == ToNat(l) = ToNat(r)

\* ordered(p, q): TRUE when p is returned as the bigger one
ordered(p, q) == op_gt_signed(p.scale, q.scale)

\* match_scale_of(p, q): the pair <<p, q>> after the call
match_scale_of(p, q) ==
    IF ordered(p, q)
    THEN LET scale_diff == Construct(p.scale.width, sub(p.scale, q.scale))
         IN <<p, [q EXCEPT !.scale = p.scale,
                           !.fraction = frac_shr(q.fraction, ToNat(scale_diff))]>>
    ELSE LET scale_diff == Construct(p.scale.width, sub(q.scale, p.scale))
         IN <<[p EXCEPT !.scale = q.scale,
                        !.fraction = frac_shr(p.fraction, ToNat(scale_diff))], q>>

\* while (dest.fraction.integer_bits().bit(1)): the pair <<dest, terminated>>
RECURSIVE AddNormalizeLoop(_, _)
AddNormalizeLoop(dest, fuel) ==
    IF bit(integer_bits(dest.fraction), 1) = 1
    THEN IF fuel = 0 THEN <<dest, FALSE>>
         ELSE AddNormalizeLoop(
                  [dest EXCEPT !.fraction = frac_shr(dest.fraction, 1),
                               !.scale = add(dest.scale, one(dest.scale.width))],
                  fuel - 1)
    ELSE <<dest, TRUE>>

\* add_fractions(dest, lfrac, rfrac): the pair <<dest, terminated>>
add_fractions(dest, lfrac, rfrac) ==
    AddNormalizeLoop([dest EXCEPT !.fraction = frac_add(lfrac, rfrac)],
                     lfrac.width + 1)

\* while (!dest.fraction.integer_bits().bit(0)): the pair <<dest, terminated>>
RECURSIVE SubNormalizeLoop(_, _)
SubNormalizeLoop(dest, fuel) ==
    IF bit(integer_bits(dest.fraction), 0) = 0
    THEN IF fuel = 0 THEN <<dest, FALSE>>
         ELSE SubNormalizeLoop(
                  [dest EXCEPT !.fraction = frac_shl(dest.fraction, 1),
                               !.scale = sub(dest.scale, one(dest.scale.width))],
                  fuel - 1)
    ELSE <<dest, TRUE>>

\* sub_fractions(dest, lfrac, rfrac): the pair <<dest, terminated>>
sub_fractions(dest, lfrac, rfrac) ==
    IF ~is_zero(fraction_bits(frac_sub(lfrac, rfrac)))
    THEN SubNormalizeLoop([dest EXCEPT !.fraction = frac_sub(lfrac, rfrac)],
                          lfrac.width + 1)
    ELSE <<[dest EXCEPT !.fraction = frac_sub(lfrac, rfrac)], TRUE>>

\* dest with the sign bit set to s, in a pair <<dest, terminated>>
with_sign(d, s) == <<[d[1] EXCEPT !.sign_bit = s], d[2]>>

\* the exact zero of sum_fractions: equal fractions of opposite sign
cancelled(dest) ==
    <<[dest EXCEPT !.fraction = Zero(dest.fraction.width),
                   !.is_zero = TRUE, !.sign_bit = FALSE], TRUE>>

\* sum_fractions(dest, lhs, rhs) for a default-constructed dest: the pair
\* <<dest, terminated>>
sum_fractions(l, r) ==
    LET dest == [DefaultParams(l.scale.width) EXCEPT !.scale = l.scale]
    IN IF l.sign_bit /\ r.sign_bit
       THEN with_sign(add_fractions(dest, l.fraction, r.fraction), TRUE)
       ELSE IF ~l.sign_bit /\ ~r.sign_bit
       THEN with_sign(add_fractions(dest, l.fraction, r.fraction), FALSE)
       ELSE IF ~l.sign_bit /\ r.sign_bit
       THEN (IF frac_less(r.fraction, l.fraction)
             THEN with_sign(sub_fractions(dest, l.fraction, r.fraction), FALSE)
             ELSE IF frac_equal(l.fraction, r.fraction)
             THEN cancelled(dest)
             ELSE with_sign(sub_fractions(dest, r.fraction, l.fraction), TRUE))
       ELSE (IF frac_less(l.fraction, r.fraction)
             THEN with_sign(sub_fractions(dest, r.fraction, l.fraction), FALSE)
             ELSE IF frac_equal(l.fraction, r.fraction)
             THEN cancelled(dest)
             ELSE with_sign(sub_fractions(dest, l.fraction, r.fraction), TRUE))

\* the sum of the scale-matched pair m
sum_matched(m) == sum_fractions(m[1], m[2])

\* positparams::operator+(other): the pair <<sum, terminated>>
plus(this, other) ==
    IF this.is_nar \/ other.is_nar THEN <<this, TRUE>>
    ELSE IF this.is_zero THEN <<other, TRUE>>
    ELSE IF other.is_zero THEN <<this, TRUE>>
    ELSE sum_matched(match_scale_of(this, other))

(***************************************************************************)
(* Valids: pairs of tiles; a tile is a posit with an uncertain bit.        *)
(***************************************************************************)

\* tile::from(p, u): the posit p, an open endpoint when u is set
tile_from(p, u) == [value |-> p, uncertain |-> u]

\* tile::zero(), tile::nar(): the exact tiles of the posits zero and NaR
tile_zero(N) == tile_from(Zero(N), FALSE)

tile_nar(N) == tile_from(nar(N), FALSE)

\* tile::operator==: the same posit and the same uncertain bit
tile_eq(s, t) == s.value = t.value /\ s.uncertain = t.uncertain

\* valid::from(start, end)
valid_from(start, end) == [start |-> start, end |-> end]

valid_zero(N) == valid_from(tile_zero(N), tile_zero(N))

\* valid::empty(): the open interval (0, 0)
valid_empty(N) == valid_from(tile_from(Zero(N), TRUE), tile_from(Zero(N), TRUE))

valid_nar(N) == valid_from(tile_nar(N), tile_nar(N))

\* valid::operator==: start == other.start && end == other.start
valid_eq(v, w) == tile_eq(v.start, w.start) /\ tile_eq(v.end, w.start)

valid_ne(v, w) == ~valid_eq(v, w)

valid_is_zero(v) == valid_eq(v, valid_zero(v.start.value.width))

valid_is_empty(v) ==
    v.start.uncertain /\ v.end.uncertain /\ v.start.value = v.end.value

valid_is_nar(v) == valid_eq(v, valid_nar(v.start.value.width))

canonical_empty(N) == valid_empty(N)

\* ensure_canonicalized: an empty valid becomes the canonical empty valid
ensure_canonicalized(v) ==
    IF valid_is_empty(v) THEN canonical_empty(v.start.value.width) ELSE v

\* valid(exact_value): both endpoints tile::from(exact_value, true), then
\* ensure_canonicalized
valid_of(p) ==
    ensure_canonicalized(valid_from(tile_from(p, TRUE), tile_from(p, TRUE)))

\* an operator that returns the sum of the start posits read as numbers
valid_plus_value(v, w) ==
    [threw |-> FALSE,
     value |-> <<valid_of(FromNat(v.start.value.width,
                                  ToNat(v.start.value) + ToNat(w.start.value)))>>]

\* valid::operator+, -, *, /: throw std::logic_error, no value
valid_plus(v, w) == [threw |-> TRUE, value |-> <<>>]

valid_minus(v, w) == [threw |-> TRUE, value |-> <<>>]

valid_times(v, w) == [threw |-> TRUE, value |-> <<>>]

valid_divided_by(v, w) == [threw |-> TRUE, value |-> <<>>]

(***************************************************************************)
(* Normalized floats: sign, E exponent bits, M mantissa bits with the      *)
(* leading 1 stored.                                                       *)
(***************************************************************************)

\* a normfloat with set_sign, set_exponent, set_mantissa applied
normfloat(s, e, m) == [sign |-> s, exponent |-> e, mantissa |-> m]

\* abs(f): the sign cleared
float_abs(f) == [f EXCEPT !.sign = FALSE]

\* the order of two magnitudes: exponent first, then mantissa
magnitude_less(x, y) ==
    \/ ToNat(x.exponent) < ToNat(y.exponent)
    \/ /\ ToNat(x.exponent) = ToNat(y.exponent)
       /\ ToNat(x.mantissa) < ToNat(y.mantissa)

\* operator<(normfloat, normfloat)
float_less(x, y) ==
    IF x.sign # y.sign
    THEN x.sign /\ ~(is_zero(x.mantissa) /\ is_zero(y.mantissa)
                        /\ is_zero(x.exponent) /\ is_zero(y.exponent))
    ELSE IF x.sign THEN magnitude_less(y, x) ELSE magnitude_less(x, y)

\* a sign hand-over that leaves the sign as it is
keep_sign(f) == f

\* swap_sign.set_sign(~swap_sign.get_sign())
flip_sign(f) == [f EXCEPT !.sign = ~f.sign]

\* get_bias(): 2^(E-1) - 1
get_bias(E) == FromNat(E, (2 ^ (E - 1)) - 1)

\* the unsigned sub, expanding_add<M, M>, expanding_sub<M, M> and div
usub(x, y) == FromNat(x.width, Mod(ToNat(x) - ToNat(y), 2 ^ x.width))

uexpanding_add(x, y) == FromNat(Max(x.width, y.width) + 1, ToNat(x) + ToNat(y))

uexpanding_sub(x, y) ==
    FromNat(Max(x.width, y.width) + 1,
            Mod(ToNat(x) - ToNat(y), 2 ^ (Max(x.width, y.width) + 1)))

udiv(n, d) ==
    IF is_zero(d) THEN [threw |-> TRUE, value |-> Zero(n.width)]
    ELSE [threw |-> FALSE, value |-> FromNat(n.width, ToNat(n) \div ToNat(d))]

\* rshift_and_round(x, n): x >> n, rounded to nearest (ties to even) by the
\* bits shifted out
rshift_and_round(x, n) ==
    LET quot == ToNat(x) \div (2 ^ n)
        rest == ToNat(x) % (2 ^ n)
        up == \/ 2 * rest > 2 ^ n
              \/ 2 * rest = 2 ^ n /\ quot % 2 = 1
    IN FromNat(x.width, Mod(quot + (IF up THEN 1 ELSE 0), 2 ^ x.width))

\* the index of the most significant set bit of n > 0
RECURSIVE TopBit(_)
TopBit(n) == IF n < 2 THEN 0 ELSE 1 + TopBit(n \div 2)

\* normalize<E, MS, M>(f): the mantissa brought to M bits with the leading 1
\* at bit M-1, the exponent adjusted by the shift, rounded to nearest even
normalize(E, M, f) ==
    LET mant == ToNat(f.mantissa)
        expo == ToNat(f.exponent)
    IN IF mant = 0 THEN normfloat(f.sign, Zero(E), Zero(M))
       ELSE LET shift == TopBit(mant) - (M - 1)
            IN IF shift >= 0
               THEN LET kept == ToNat(rshift_and_round(f.mantissa, shift))
                    IN IF kept = 2 ^ M
                       THEN normfloat(f.sign, FromNat(E, Mod(expo + shift + 1, 2 ^ E)),
                                      FromNat(M, 2 ^ (M - 1)))
                       ELSE normfloat(f.sign, FromNat(E, Mod(expo + shift, 2 ^ E)),
                                      FromNat(M, kept))
               ELSE IF expo + shift <= 0
                    THEN normfloat(f.sign, Zero(E), Zero(M))
                    ELSE normfloat(f.sign, FromNat(E, expo + shift),
                                   FromNat(M, mant * (2 ^ (0 - shift))))

\* add_, sub_: the significand step (lines 39-48 and 81-90)
add_significand(x, y) ==
    LET exponent_delta == usub(x.exponent, y.exponent)
        new_mantissa == op_shr(y.mantissa, word(exponent_delta, 0))
        mantissa_sum == uexpanding_add(x.mantissa, new_mantissa)
    IN normalize(x.exponent.width, x.mantissa.width,
                 normfloat(x.sign, x.exponent, mantissa_sum))

sub_significand(x, y) ==
    LET exponent_delta == usub(x.exponent, y.exponent)
        new_mantissa == op_shr(y.mantissa, word(exponent_delta, 0))
        mantissa_sum == uexpanding_sub(x.mantissa, new_mantissa)
    IN normalize(x.exponent.width, x.mantissa.width,
                 normfloat(x.sign, x.exponent, mantissa_sum))

\* div(lhs, rhs) of normfloats: [threw, value]
float_div_quotient(x, y, mquotient) ==
    LET E == x.exponent.width
        M == x.mantissa.width
        rdmquotient == rshift_and_round(mquotient, 4)
        esum == width_cast(E, usub(uexpanding_add(x.exponent, get_bias(E)),
                                   width_cast(E + 1, y.exponent)))
    IN normalize(E, M, normfloat(x.sign # y.sign, esum, rdmquotient))

float_div(x, y) ==
    LET M == x.mantissa.width
        dividend == op_shl(width_cast(2 * M + 3, x.mantissa), M + 3)
        divisor == width_cast(2 * M + 3, y.mantissa)
        d == udiv(dividend, divisor)
    IN IF d.threw THEN [threw |-> TRUE, value |-> <<>>]
       ELSE [threw |-> FALSE, value |-> <<float_div_quotient(x, y, d.value)>>]

(***************************************************************************)
(* Fixed-point numbers: I integer bits and F fractional bits over a signed *)
(* or unsigned integer of I + F bits.                                      *)
(***************************************************************************)

\* fixed<I, F, B>::from_bitstring(bits); B is integer when is_signed
from_bitstring(I, F, is_signed, bits) ==
    [int_width |-> I, frac_width |-> F, is_signed |-> is_signed, bits |-> bits]

\* width_cast of the base integer type B
base_width_cast(M, is_signed, x) ==
    IF is_signed THEN width_cast_signed(M, x) ELSE width_cast(M, x)

\* operator>>(fixed, size_t) and operator<<(fixed, size_t)
fixed_shr(x, n) ==
    from_bitstring(x.int_width, x.frac_width, x.is_signed,
                   IF x.is_signed THEN op_ashr(x.bits, n) ELSE op_shr(x.bits, n))

fixed_shl(x, n) ==
    from_bitstring(x.int_width, x.frac_width, x.is_signed, op_shl(x.bits, n))

\* width_cast<TargetI, TargetF>(fixed)
fixed_width_cast(TargetI, TargetF, x) ==
    LET fixed_i == from_bitstring(TargetI, x.frac_width, x.is_signed,
                      base_width_cast(TargetI + x.frac_width, x.is_signed, x.bits))
        TargetW == TargetI + TargetF
    IN IF TargetF > x.frac_width
       THEN fixed_shl(from_bitstring(TargetI, TargetF, x.is_signed,
                         base_width_cast(TargetW, x.is_signed, fixed_i.bits)),
                      TargetF - x.frac_width)
       ELSE from_bitstring(TargetI, TargetF, x.is_signed,
               base_width_cast(TargetW, x.is_signed,
                               fixed_shr(fixed_i, x.frac_width - TargetF).bits))

\* expanding_add(fixed, fixed): the casts of both operands are made, the cast
\* of the first one is returned
fixed_expanding_add(x, y) ==
    LET I_expanded == Max(x.int_width, y.int_width) + 1
        F_expanded == Max(x.frac_width, y.frac_width)
        a_expanded == fixed_width_cast(I_expanded, F_expanded, x)
    IN fixed_width_cast(I_expanded, F_expanded, a_expanded)

(***************************************************************************)
(* Zips of two word arrays.                                                *)
(***************************************************************************)

\* the word functions given to zip_with: f(x, y)
WordFunctions == {"or", "and", "xor"}

apply_word(f, x, y) ==
    IF f = "or" THEN WordOr(x, y)
    ELSE IF f = "and" THEN WordAnd(x, y)
    ELSE WordXor(x, y)

\* the word functions with state given to zip_with_state: f(x, y, state) is
\* the pair <<word, state>>; the adder with carry, the subtractor with borrow
StateFunctions == {"adc", "sbb"}

apply_state(f, x, y, state) ==
    IF f = "adc"
    THEN <<(x + y + state) % WordMod, (x + y + state) \div WordMod>>
    ELSE <<Mod(x - y - state, WordMod), IF x - y - state < 0 THEN 1 ELSE 0>>

RECURSIVE ZipLoop(_, _, _, _, _)
ZipLoop(w, v, f, result, i) ==
    IF i >= word_count(result.width) THEN result
    ELSE ZipLoop(w, v, f, set_word(result, i, apply_word(f, word(w, i), word(v, i))), i + 1)

\* zip_with(w, v, f): min(W, V) bits
zip_with(w, v, f) == ZipLoop(w, v, f, Zero(Min(w.width, v.width)), 0)

RECURSIVE ZipStateLoop(_, _, _, _, _, _)
ZipStateLoop(w, v, f, state, result, i) ==
    IF i >= word_count(result.width) THEN result
    ELSE ZipStateLoop(w, v, f, apply_state(f, word(w, i), word(v, i), state)[2],
                      set_word(result, i, apply_state(f, word(w, i), word(v, i), state)[1]),
                      i + 1)

\* zip_with_state(w, v, f, initial_state): min(W, V) bits
zip_with_state(w, v, f, initial_state) ==
    ZipStateLoop(w, v, f, initial_state, Zero(Min(w.width, v.width)), 0)

\* zip_with_expand(w, v, f): the result is converted to max(W, V) bits
zip_with_expand(w, v, f) ==
    IF word_count(w.width) = word_count(v.width)
    THEN width_cast(Max(w.width, v.width), zip_with(w, v, f))
    ELSE zip_with(width_cast(Max(w.width, v.width), w),
                  width_cast(Max(w.width, v.width), v), f)

\* zip_with_state_expand(w, v, f, initial_state): with equal word counts the
\* call of zip_with_state takes its default initial state
zip_with_state_expand(w, v, f, initial_state) ==
    IF word_count(w.width) = word_count(v.width)
    THEN width_cast(Max(w.width, v.width), zip_with_state(w, v, f, 0))
    ELSE zip_with_state(width_cast(Max(w.width, v.width), w),
                        width_cast(Max(w.width, v.width), v), f, initial_state)

(***************************************************************************)
(* Shifts and slices of one word array: the inputs are an N-bit array, a   *)
(* shift count and a pair of indices.                                      *)
(***************************************************************************)
\* the 16-bit array 0xABCD
ExampleArray == FromNat(16, 43981)

ShiftInit ==
    /\ op = "init"
    /\ \/ \E N \in 1..MaxShiftWidth : a \in Arrays(N)
       \/ a = ExampleArray
    /\ b = Zero(1)
    /\ carry_in = 0
    /\ rhs = 0
    /\ rng = <<0, 0>>
    /\ res = <<>>
    /\ flag = FALSE
    /\ err = FALSE
    /\ count = 0
    /\ arg1 = 0
    /\ arg2 = 0
    /\ out = 0
    /\ es = 0
    /\ params = NoParams

ShiftLeft ==
    /\ op = "init"
    /\ \E n \in 0..MaxShift :
          /\ rhs' = n
          /\ res' = <<op_shl(a, n)>>
    /\ op' = "shl"
    /\ UNCHANGED <<a, b, carry_in, rng, flag, err, count, es, params, arg1, arg2, out>>

ShiftRight ==
    /\ op = "init"
    /\ \E n \in 0..MaxShift :
          /\ rhs' = n
          /\ res' = <<op_shr(a, n)>>
    /\ op' = "shr"
    /\ UNCHANGED <<a, b, carry_in, rng, flag, err, count, es, params, arg1, arg2, out>>

BitRange ==
    /\ op = "init"
    /\ \E S \in 0..(a.width - 1) : \E E \in 0..S :
          /\ rng' = <<S, E>>
          /\ res' = <<bit_range(S, E, a)>>
    /\ op' = "bit_range"
    /\ UNCHANGED <<a, b, carry_in, rhs, flag, err, count, es, params, arg1, arg2, out>>

CountLeadingZeroes ==
    /\ op = "init"
    /\ count' = count_leading_zeroes(a)
    /\ op' = "count_leading_zeroes"
    /\ UNCHANGED <<a, b, carry_in, rhs, rng, res, flag, err, es, params, arg1, arg2, out>>

FirstSetBit ==
    /\ op = "init"
    /\ count' = first_set_bit(a)
    /\ op' = "first_set_bit"
    /\ UNCHANGED <<a, b, carry_in, rhs, rng, res, flag, err, es, params, arg1, arg2, out>>

\* width_cast<M>(a) of a word array, and the cast back to a's width
WidthCast ==
    /\ op = "init"
    /\ \E M \in 1..MaxShift :
          /\ rhs' = M
          /\ res' = <<width_cast(M, a), width_cast(a.width, width_cast(M, a))>>
    /\ op' = "width_cast"
    /\ UNCHANGED <<a, b, carry_in, rng, flag, err, count, es, params, arg1, arg2, out>>

\* width_cast<M>(a) of a signed integer, and the cast back to a's width
WidthCastSigned ==
    /\ op = "init"
    /\ \E M \in 1..MaxShift :
          /\ rhs' = M
          /\ res' = <<width_cast_signed(M, a),
                      width_cast_signed(a.width, width_cast_signed(M, a))>>
    /\ op' = "width_cast_signed"
    /\ UNCHANGED <<a, b, carry_in, rng, flag, err, count, es, params, arg1, arg2, out>>

\* a >> n on a signed integer
ArithShiftRight ==
    /\ op = "init"
    /\ \E n \in 0..MaxShift :
          /\ rhs' = n
          /\ res' = <<op_ashr(a, n), op_ashr(op_ashr(a, 1), 1)>>
    /\ op' = "ashr"
    /\ UNCHANGED <<a, b, carry_in, rng, flag, err, count, es, params, arg1, arg2, out>>

ShiftNext ==
    \/ ShiftLeft
    \/ ShiftRight
    \/ BitRange
    \/ CountLeadingZeroes
    \/ FirstSetBit
    \/ WidthCast
    \/ WidthCastSigned
    \/ ArithShiftRight

SpecShift == ShiftInit /\ [][ShiftNext]_vars

\* C9: x << k is (x * 2^k) mod 2^N for an unsigned N-bit x and every k >= 0:
\* zero when k >= N, x itself when k = 0, also across and over whole words
ShlIsMulPow2 ==
    op = "shl" => /\ res[1].width = a.width
                  /\ ToNat(res[1]) = (ToNat(a) * (2 ^ rhs)) % (2 ^ a.width)
                  /\ (rhs >= a.width => ToNat(res[1]) = 0)
                  /\ (rhs = 0 => res[1] = a)

\* C9 witness: a shift that skips a whole word and crosses a word boundary
\* and still leaves bits in the result
ShlWitness ==
    /\ op = "shl"
    /\ rhs > WordWidth
    /\ rhs % WordWidth # 0
    /\ rhs < a.width
    /\ ToNat(res[1]) # 0
    /\ ToNat(a) * (2 ^ rhs) >= 2 ^ a.width

\* C10: bit_range<S,E>(w) has S-E+1 bits, bit i being bit E+i of w, which is
\* width_cast<S-E+1>(floor(w / 2^E)); bits [7:0] of 0xABCD are 0xCD
BitRangeIsSlice ==
    op = "bit_range" =>
        LET S == rng[1]
            E == rng[2]
        IN /\ res[1].width = (S - E) + 1
           /\ WellFormed(res[1])
           /\ \A i \in 0..(S - E) : bit(res[1], i) = bit(a, E + i)
           /\ ToNat(res[1]) = (ToNat(a) \div (2 ^ E)) % (2 ^ ((S - E) + 1))
           /\ (a = ExampleArray /\ S = 7 /\ E = 0 => res[1] = FromNat(8, 205))

\* C10 witness: a range that starts in a higher storage word and spans words
BitRangeWitness ==
    /\ op = "bit_range"
    /\ rng[2] > WordWidth
    /\ rng[1] \div WordWidth > rng[2] \div WordWidth
    /\ rng[1] < a.width - 1
    /\ ToNat(res[1]) # 0
    /\ ToNat(a) \div (2 ^ (rng[1] + 1)) # 0

\* the index of the most significant set bit of a non-zero array
MsbIndex(x) == CHOOSE i \in 0..(x.width - 1) :
                  /\ bit(x, i) = 1
                  /\ \A j \in (i + 1)..(x.width - 1) : bit(x, j) = 0

\* C11: count_leading_zeroes(w) is N - 1 minus the index of the most
\* significant set bit of w, and N when w is zero; so it is N for the value 0
\* and N - 1 for the value 1, in arrays of more than one word too.
ClzIsLeadingZeroes ==
    op = "count_leading_zeroes" =>
        /\ count = IF ToNat(a) = 0 THEN a.width
                   ELSE (a.width - 1) - MsbIndex(a)
        /\ ToNat(a) = 0 => count = a.width
        /\ ToNat(a) = 1 => count = a.width - 1

ClzWitness ==
    /\ op = "count_leading_zeroes"
    /\ word_count(a.width) >= 3
    /\ ToNat(a) = 1
    /\ count = a.width - 1

\* C12: first_set_bit(w) is the zero-based index of the most significant set
\* bit of w, and for the all-zero w a result that no non-zero w gives.
FirstSetBitIsMsbIndex ==
    op = "first_set_bit" =>
        /\ ToNat(a) # 0 => count = MsbIndex(a)
        /\ ToNat(a) = 0 =>
              \A N \in 1..MaxShiftWidth : \A x \in Arrays(N) :
                  ToNat(x) # 0 => first_set_bit(x) # count

\* C13: width_cast<M> of a word array or unsigned integer has width M and
\* zero-extends (M > N) or truncates (M < N) the value; width_cast<M> of a
\* signed integer keeps the value when it grows (sign extension); and for
\* M >= N casting to M and back to N gives the original, for both.
WidthCastRoundTrip ==
    /\ op = "width_cast" =>
          /\ res[1].width = rhs
          /\ WellFormed(res[1])
          /\ ToNat(res[1]) = ToNat(a) % (2 ^ rhs)
          /\ rhs >= a.width => res[2] = a
    /\ op = "width_cast_signed" =>
          /\ res[1].width = rhs
          /\ WellFormed(res[1])
          /\ rhs >= a.width => ToInt(res[1]) = ToInt(a)
          /\ rhs >= a.width => res[2] = a

WidthCastWitness ==
    /\ op = "width_cast_signed"
    /\ rhs > a.width
    /\ word_count(rhs) > word_count(a.width)
    /\ ToInt(a) < 0
    /\ ToInt(res[1]) = ToInt(a)
    /\ res[2] = a

\* the floor of x / d for a positive d
FloorDiv(x, d) == (x - Mod(x, d)) \div d

\* C17: for a negative signed x of any width and every shift count k >= 0,
\* k >= width included, x >> k is floor(x / 2^k); it stays negative and
\* -1 >> k is -1.
AshrNegativeIsFloor ==
    (op = "ashr" /\ ToInt(a) < 0) =>
        /\ res[1].width = a.width
        /\ WellFormed(res[1])
        /\ ToInt(res[1]) = FloorDiv(ToInt(a), 2 ^ rhs)
        /\ ToInt(res[1]) < 0
        /\ ToInt(a) = 0 - 1 => ToInt(res[1]) = 0 - 1

AshrNegativeWitness ==
    /\ op = "ashr"
    /\ word_count(a.width) >= 3
    /\ ToInt(a) < 0 - 1
    /\ rhs > WordWidth
    /\ rhs < a.width
    /\ rhs % WordWidth # 0
    /\ ToInt(res[1]) = FloorDiv(ToInt(a), 2 ^ rhs)

\* C18: for a non-negative signed x of any width, zero included, and every
\* shift count k >= 0, k >= the word width included, x >> k is
\* floor(x / 2^k) and non-negative; shifting by 1 twice equals shifting by 2.
AshrNonNegativeIsFloor ==
    (op = "ashr" /\ ToInt(a) >= 0) =>
        /\ res[1].width = a.width
        /\ ToInt(res[1]) = FloorDiv(ToInt(a), 2 ^ rhs)
        /\ ToInt(res[1]) >= 0
        /\ rhs = 2 => res[2] = res[1]

\* x >> k of a non-zero non-negative x
AshrPositiveIsFloor ==
    (op = "ashr" /\ ToInt(a) > 0) =>
        /\ ToInt(res[1]) = FloorDiv(ToInt(a), 2 ^ rhs)
        /\ rhs = 2 => res[2] = res[1]

(***************************************************************************)
(* Sequences of operations on one register: a holds the value that the     *)
(* operations transform, b is the other operand of the binary operations   *)
(* (when it has a's width) and the value a is compared with.               *)
(***************************************************************************)
BitsInit ==
    /\ op = "init"
    /\ \E N \in 1..MaxBitsWidth : a \in Arrays(N)
    /\ \E N \in 1..MaxBitsWidth : b \in Arrays(N)
    /\ carry_in = 0
    /\ rhs = 0
    /\ rng = <<0, 0>>
    /\ res = <<>>
    /\ flag = FALSE
    /\ err = FALSE
    /\ count = 0
    /\ arg1 = 0
    /\ arg2 = 0
    /\ out = 0
    /\ es = 0
    /\ params = NoParams

BitsNot ==
    /\ a' = op_not(a)
    /\ op' = "not"
    /\ UNCHANGED <<b, carry_in, rhs, rng, res, flag, err, count, es, params, arg1, arg2, out>>

BitsAnd ==
    /\ a.width = b.width
    /\ a' = op_and(a, b)
    /\ op' = "and"
    /\ UNCHANGED <<b, carry_in, rhs, rng, res, flag, err, count, es, params, arg1, arg2, out>>

BitsOr ==
    /\ a.width = b.width
    /\ a' = op_or(a, b)
    /\ op' = "or"
    /\ UNCHANGED <<b, carry_in, rhs, rng, res, flag, err, count, es, params, arg1, arg2, out>>

BitsXor ==
    /\ a.width = b.width
    /\ a' = op_xor(a, b)
    /\ op' = "xor"
    /\ UNCHANGED <<b, carry_in, rhs, rng, res, flag, err, count, es, params, arg1, arg2, out>>

BitsShl ==
    /\ \E n \in 0..MaxShift : a' = op_shl(a, n)
    /\ op' = "shl"
    /\ UNCHANGED <<b, carry_in, rhs, rng, res, flag, err, count, es, params, arg1, arg2, out>>

BitsShr ==
    /\ \E n \in 0..MaxShift : a' = op_shr(a, n)
    /\ op' = "shr"
    /\ UNCHANGED <<b, carry_in, rhs, rng, res, flag, err, count, es, params, arg1, arg2, out>>

BitsAshr ==
    /\ \E n \in 0..MaxShift : a' = op_ashr(a, n)
    /\ op' = "ashr"
    /\ UNCHANGED <<b, carry_in, rhs, rng, res, flag, err, count, es, params, arg1, arg2, out>>

BitsAdd ==
    /\ a.width = b.width
    /\ a' = add(a, b)
    /\ op' = "add"
    /\ UNCHANGED <<b, carry_in, rhs, rng, res, flag, err, count, es, params, arg1, arg2, out>>

BitsNeg ==
    /\ a' = op_neg(a)
    /\ op' = "neg"
    /\ UNCHANGED <<b, carry_in, rhs, rng, res, flag, err, count, es, params, arg1, arg2, out>>

BitsWidthCast ==
    /\ \E M \in 1..MaxBitsWidth : a' = width_cast(M, a)
    /\ op' = "width_cast"
    /\ UNCHANGED <<b, carry_in, rhs, rng, res, flag, err, count, es, params, arg1, arg2, out>>

BitsWidthCastSigned ==
    /\ \E M \in 1..MaxBitsWidth : a' = width_cast_signed(M, a)
    /\ op' = "width_cast_signed"
    /\ UNCHANGED <<b, carry_in, rhs, rng, res, flag, err, count, es, params, arg1, arg2, out>>

BitsNext ==
    \/ BitsNot
    \/ BitsAnd
    \/ BitsOr
    \/ BitsXor
    \/ BitsShl
    \/ BitsShr
    \/ BitsAshr
    \/ BitsAdd
    \/ BitsNeg
    \/ BitsWidthCast
    \/ BitsWidthCastSigned

SpecBits == BitsInit /\ [][BitsNext]_vars

\* the significant bits of x and y are the same
SameBits(x, y) ==
    /\ x.width = y.width
    /\ \A i \in 0..(x.width - 1) : bit(x, i) = bit(y, i)

\* C8: after any sequence of ~, &, |, ^, <<, >>, arithmetic >>, add, negation
\* and width_cast no storage bit above position N-1 is set, so that two values
\* of one width compare equal iff their N significant bits are equal
TopBitsZero ==
    /\ WellFormed(a)
    /\ ToNat(a) < 2 ^ a.width
    /\ (a.width = b.width => (op_eq_unsigned(a, b) <=> SameBits(a, b)))

\* C8 witness: ~ has produced a value whose top word is only partly used and
\* whose top significant bit is set, and it equals the value it is compared with
TopBitsWitness ==
    /\ op = "not"
    /\ a.width % WordWidth # 0
    /\ a.width > WordWidth
    /\ bit(a, a.width - 1) = 1
    /\ a.width = b.width
    /\ op_eq_unsigned(a, b)

(***************************************************************************)
(* Signed integer arithmetic: the inputs are a of width W and b of width V *)
(* (and the carry-in of expanding_add); one operation is applied to them.  *)
(***************************************************************************)
IntInit ==
    /\ op = "init"
    /\ \E N \in 1..MaxWidth : a \in Arrays(N)
    /\ \E N \in 1..MaxWidth : b \in Arrays(N)
    /\ carry_in = 0
    /\ rhs = 0
    /\ rng = <<0, 0>>
    /\ res = <<>>
    /\ flag = FALSE
    /\ err = FALSE
    /\ count = 0
    /\ arg1 = 0
    /\ arg2 = 0
    /\ out = 0
    /\ es = 0
    /\ params = NoParams

Add ==
    /\ op = "init"
    /\ a.width = b.width
    /\ res' = <<add(a, b)>>
    /\ op' = "add"
    /\ UNCHANGED <<a, b, carry_in, rhs, rng, flag, err, count, es, params, arg1, arg2, out>>

Sub ==
    /\ op = "init"
    /\ a.width = b.width
    /\ res' = <<sub(a, b)>>
    /\ op' = "sub"
    /\ UNCHANGED <<a, b, carry_in, rhs, rng, flag, err, count, es, params, arg1, arg2, out>>

Mul ==
    /\ op = "init"
    /\ a.width = b.width
    /\ res' = <<mul(a, b)>>
    /\ op' = "mul"
    /\ UNCHANGED <<a, b, carry_in, rhs, rng, flag, err, count, es, params, arg1, arg2, out>>

ExpandingAdd ==
    /\ op = "init"
    /\ \E c \in {0, 1} :
          /\ carry_in' = c
          /\ res' = <<expanding_add(a, b, c = 1)>>
    /\ op' = "expanding_add"
    /\ UNCHANGED <<a, b, rhs, rng, flag, err, count, es, params, arg1, arg2, out>>

ExpandingMul ==
    /\ op = "init"
    /\ res' = <<expanding_mul(a, b)>>
    /\ op' = "expanding_mul"
    /\ UNCHANGED <<a, b, carry_in, rhs, rng, flag, err, count, es, params, arg1, arg2, out>>

RestoringDivision ==
    /\ op = "init"
    /\ LET d == restoring_division(a, b)
       IN /\ err' = d.threw
          /\ res' = IF d.threw THEN <<>> ELSE <<d.quotient, d.remainder>>
    /\ op' = "restoring_division"
    /\ UNCHANGED <<a, b, carry_in, rhs, rng, flag, count, es, params, arg1, arg2, out>>

Div ==
    /\ op = "init"
    /\ a.width = b.width
    /\ LET d == div(a, b)
       IN /\ err' = d.threw
          /\ res' = IF d.threw THEN <<>> ELSE <<d.value>>
    /\ op' = "div"
    /\ UNCHANGED <<a, b, carry_in, rhs, rng, flag, count, es, params, arg1, arg2, out>>

Remainder ==
    /\ op = "init"
    /\ a.width = b.width
    /\ LET d == remainder(a, b)
       IN /\ err' = d.threw
          /\ res' = IF d.threw THEN <<>> ELSE <<d.value>>
    /\ op' = "remainder"
    /\ UNCHANGED <<a, b, carry_in, rhs, rng, flag, count, es, params, arg1, arg2, out>>

ExpandingAbs ==
    /\ op = "init"
    /\ res' = <<expanding_abs(a)>>
    /\ op' = "expanding_abs"
    /\ UNCHANGED <<a, b, carry_in, rhs, rng, flag, err, count, es, params, arg1, arg2, out>>

IntNext ==
    \/ Add
    \/ Sub
    \/ Mul
    \/ ExpandingAdd
    \/ ExpandingMul
    \/ RestoringDivision
    \/ Div
    \/ Remainder
    \/ ExpandingAbs

SpecInt == IntInit /\ [][IntNext]_vars

\* x and y are congruent modulo 2^N
Congruent(x, y, N) == Mod(x - y, 2 ^ N) = 0

\* the smallest value of a signed N-bit integer
MinInt(N) == 0 - (2 ^ (N - 1))

\* C1: add, sub and mul of two signed W-bit integers return the W-bit
\* two's-complement value congruent to a+b, a-b and a*b modulo 2^W
\* (mul(min, -1) is min)
WrapArith ==
    /\ op = "add" => /\ res[1].width = a.width
                     /\ WellFormed(res[1])
                     /\ Congruent(ToInt(res[1]), ToInt(a) + ToInt(b), a.width)
    /\ op = "sub" => /\ res[1].width = a.width
                     /\ WellFormed(res[1])
                     /\ Congruent(ToInt(res[1]), ToInt(a) - ToInt(b), a.width)
    /\ op = "mul" => /\ res[1].width = a.width
                     /\ WellFormed(res[1])
                     /\ Congruent(ToInt(res[1]), ToInt(a) * ToInt(b), a.width)
                     /\ (a.width > 1 /\ ToInt(a) = MinInt(a.width) /\ ToInt(b) = -1
                            => ToInt(res[1]) = MinInt(a.width))

\* C1 witness: the overflowing product min * -1 of integers stored in several words
WrapArithWitness ==
    /\ op = "mul"
    /\ a.width > WordWidth
    /\ ToInt(a) = MinInt(a.width)
    /\ ToInt(b) = -1
    /\ ToInt(res[1]) = MinInt(a.width)

\* C2: expanding_add(a, b, c) has max(W,V)+1 bits and is exactly a + b + c
ExpandingAddExact ==
    op = "expanding_add" =>
        /\ res[1].width = Max(a.width, b.width) + 1
        /\ WellFormed(res[1])
        /\ ToInt(res[1]) = ToInt(a) + ToInt(b) + carry_in

\* C2 witness: operands of different widths in several words whose low words
\* add up to all ones, so that only the incoming carry carries into the next
\* word, and whose sum does not fit the wider operand's width
ExpandingAddWitness ==
    /\ op = "expanding_add"
    /\ carry_in = 1
    /\ a.width > WordWidth
    /\ b.width # a.width
    /\ (ToNat(a) % WordMod) + (ToNat(b) % WordMod) = WordAllOnes
    /\ ToInt(res[1]) >= 2 ^ (Max(a.width, b.width) - 1)

\* C3: expanding_mul(m, r) is the exact product as a (W+V)-bit value, also
\* for the most negative operands (expanding_mul(min, -1) is -min)
ExpandingMulExact ==
    op = "expanding_mul" =>
        /\ res[1].width = a.width + b.width
        /\ WellFormed(res[1])
        /\ ToInt(res[1]) = ToInt(a) * ToInt(b)

\* C3 witness: the product of the most negative value and -1
ExpandingMulWitness ==
    /\ op = "expanding_mul"
    /\ a.width > WordWidth
    /\ a.width = b.width
    /\ ToInt(a) = MinInt(a.width)
    /\ ToInt(b) = -1
    /\ ToInt(res[1]) = 2 ^ (a.width - 1)

\* C4: for d # 0 of n's width, (q, r) = restoring_division(n, d) satisfies
\* add(mul(q, d), r) = n, |r| < |d|, and r is zero or has the sign of n
DivisionLaw ==
    (op = "restoring_division" /\ a.width = b.width /\ ~is_zero(b)) =>
        /\ ~err
        /\ Len(res) = 2
        /\ add(mul(res[1], b), res[2]) = a
        /\ Abs(ToInt(res[2])) < Abs(ToInt(b))
        /\ (ToInt(res[2]) = 0 \/ ((ToInt(res[2]) < 0) <=> (ToInt(a) < 0)))

\* C14: the signed restoring_division, div and remainder with a zero
\* denominator fail with the divide-by-zero error for every numerator, zero
\* included (the check comes before every fast path); no result is returned
\* and the operands are left unchanged.
DivisionByZeroFails ==
    [][(op' \in {"restoring_division", "div", "remainder"} /\ is_zero(b)) =>
          (err' /\ res' = <<>> /\ a' = a /\ b' = b)]_vars

DivisionByZeroWitness ==
    /\ op = "restoring_division"
    /\ is_zero(a)
    /\ is_zero(b)
    /\ err
    /\ res = <<>>

\* C15: expanding_abs(n), read as an unsigned integer of n's width, is the
\* absolute value of n exactly, for the minimum too: |min| = 2^(W-1).
ExpandingAbsExact ==
    op = "expanding_abs" =>
        /\ res[1].width = a.width
        /\ WellFormed(res[1])
        /\ ToNat(res[1]) = Abs(ToInt(a))
        /\ ToInt(a) = MinInt(a.width) => ToNat(res[1]) = 2 ^ (a.width - 1)

ExpandingAbsWitness ==
    /\ op = "expanding_abs"
    /\ word_count(a.width) >= 2
    /\ ToInt(a) = MinInt(a.width)
    /\ ToNat(res[1]) = 2 ^ (a.width - 1)

\* C16: restoring_division(min, -1) returns the pair (min, 0) without an
\* error at every width (so div gives min and remainder gives 0).
MinByMinusOne ==
    (a.width = b.width /\ ToInt(a) = MinInt(a.width) /\ ToInt(b) = 0 - 1) =>
        /\ op = "restoring_division" => (~err /\ res = <<a, zero(a.width)>>)
        /\ op = "div" => (~err /\ res = <<a>>)
        /\ op = "remainder" => (~err /\ res = <<zero(a.width)>>)

MinByMinusOneWitness ==
    /\ op = "restoring_division"
    /\ a.width = b.width
    /\ word_count(a.width) >= 2
    /\ ToInt(a) = MinInt(a.width)
    /\ ToInt(b) = 0 - 1
    /\ ~err
    /\ res = <<a, zero(a.width)>>

(***************************************************************************)
(* Comparisons: the inputs are a of width W and b of width V, read as      *)
(* unsigned or as signed integers; one comparison is applied to them.      *)
(***************************************************************************)
LessUnsigned ==
    /\ op = "init"
    /\ flag' = op_lt_unsigned(a, b)
    /\ op' = "lt_unsigned"
    /\ UNCHANGED <<a, b, carry_in, rhs, rng, res, err, count, es, params, arg1, arg2, out>>

EqualUnsigned ==
    /\ op = "init"
    /\ flag' = op_eq_unsigned(a, b)
    /\ op' = "eq_unsigned"
    /\ UNCHANGED <<a, b, carry_in, rhs, rng, res, err, count, es, params, arg1, arg2, out>>

LessEqualUnsigned ==
    /\ op = "init"
    /\ flag' = op_le_unsigned(a, b)
    /\ op' = "le_unsigned"
    /\ UNCHANGED <<a, b, carry_in, rhs, rng, res, err, count, es, params, arg1, arg2, out>>

GreaterUnsigned ==
    /\ op = "init"
    /\ flag' = op_gt_unsigned(a, b)
    /\ op' = "gt_unsigned"
    /\ UNCHANGED <<a, b, carry_in, rhs, rng, res, err, count, es, params, arg1, arg2, out>>

GreaterEqualUnsigned ==
    /\ op = "init"
    /\ flag' = op_ge_unsigned(a, b)
    /\ op' = "ge_unsigned"
    /\ UNCHANGED <<a, b, carry_in, rhs, rng, res, err, count, es, params, arg1, arg2, out>>

LessSigned ==
    /\ op = "init"
    /\ flag' = op_lt_signed(a, b)
    /\ op' = "lt_signed"
    /\ UNCHANGED <<a, b, carry_in, rhs, rng, res, err, count, es, params, arg1, arg2, out>>

EqualSigned ==
    /\ op = "init"
    /\ flag' = op_eq_signed(a, b)
    /\ op' = "eq_signed"
    /\ UNCHANGED <<a, b, carry_in, rhs, rng, res, err, count, es, params, arg1, arg2, out>>

LessEqualSigned ==
    /\ op = "init"
    /\ flag' = op_le_signed(a, b)
    /\ op' = "le_signed"
    /\ UNCHANGED <<a, b, carry_in, rhs, rng, res, err, count, es, params, arg1, arg2, out>>

GreaterSigned ==
    /\ op = "init"
    /\ flag' = op_gt_signed(a, b)
    /\ op' = "gt_signed"
    /\ UNCHANGED <<a, b, carry_in, rhs, rng, res, err, count, es, params, arg1, arg2, out>>

GreaterEqualSigned ==
    /\ op = "init"
    /\ flag' = op_ge_signed(a, b)
    /\ op' = "ge_signed"
    /\ UNCHANGED <<a, b, carry_in, rhs, rng, res, err, count, es, params, arg1, arg2, out>>

CmpNext ==
    \/ LessUnsigned
    \/ EqualUnsigned
    \/ LessEqualUnsigned
    \/ GreaterUnsigned
    \/ GreaterEqualUnsigned
    \/ LessSigned
    \/ EqualSigned
    \/ LessEqualSigned
    \/ GreaterSigned
    \/ GreaterEqualSigned

SpecCmp == IntInit /\ [][CmpNext]_vars

\* C5: a < b on signed integers of any widths holds iff the value of a is
\* strictly less than the value of b
SignedLessIsValueLess ==
    op = "lt_signed" => (flag <=> ToInt(a) < ToInt(b))

\* C6: a == b on signed integers of any widths holds iff a and b denote the
\* same integer
SignedEqualIsValueEqual ==
    op = "eq_signed" => (flag <=> ToInt(a) = ToInt(b))

\* exactly one of the three holds
ExactlyOne(p, q, r) ==
    /\ p \/ q \/ r
    /\ ~(p /\ q)
    /\ ~(p /\ r)
    /\ ~(q /\ r)

\* C7: on unsigned integers of any widths a == b iff the values are equal and
\* a < b iff value(a) < value(b); exactly one of a < b, a == b, a > b holds,
\* and a <= b iff (a < b or a == b)
UnsignedOrder ==
    /\ op = "eq_unsigned" => (flag <=> ToNat(a) = ToNat(b))
    /\ op = "lt_unsigned" => (flag <=> ToNat(a) < ToNat(b))
    /\ op = "gt_unsigned" => (flag <=> ToNat(a) > ToNat(b))
    /\ op = "le_unsigned" => (flag <=> ToNat(a) <= ToNat(b))
    /\ op = "ge_unsigned" => (flag <=> ToNat(a) >= ToNat(b))
    /\ op # "init" => ExactlyOne(op_lt_unsigned(a, b), op_eq_unsigned(a, b),
                                 op_gt_unsigned(a, b))

\* C7 witness: operands of different widths and word counts that are equal
UnsignedOrderWitness ==
    /\ op = "eq_unsigned"
    /\ word_count(a.width) > word_count(b.width)
    /\ ToNat(a) # 0
    /\ flag

(***************************************************************************)
(* Posits: the input is a posit P<N, ES> (the pattern a, with es = ES) or   *)
(* a positparams of P<N, ES>; a posit is converted to its positparams, and  *)
(* a positparams to a posit.                                                *)
(***************************************************************************)
\* the posit types <<N, ES>> of the specification: those whose constant
\* powes = 2^ES is a positive integer<N>
PositTypes ==
    {t \in (2..MaxPositWidth) \X (0..MaxES) : 2 ^ t[2] < 2 ^ (t[1] - 1)}

\* the scales of P<N, ES> and the regime length of the encoder fit integer<N>
ScaleFits(N, ES) == N >= 3 /\ (N - 2) * (2 ^ ES) < 2 ^ (N - 1)

\* the positparams of P<N, ES>: NaR, zero and the finite ones with a
\* normalized fraction, whose leading fraction bits vary
FiniteParams(N) ==
    LET F == FractionSize(N)
        K == Min(F, MaxFractionBits)
    IN {[is_nar |-> FALSE, is_zero |-> FALSE, sign_bit |-> s, scale |-> sc,
         fraction |-> FromNat(IntegerSize + F, (2 ^ F) + f * (2 ^ (F - K)))] :
           s \in BOOLEAN, sc \in Arrays(N), f \in 0..((2 ^ K) - 1)}

ParamsOf(N) ==
    {[DefaultParams(N) EXCEPT !.is_nar = TRUE], params_zero(N)}
        \cup FiniteParams(N)

\* the posit P<8, 0> with the bits 01000000
ExamplePosit == FromNat(8, 64)

PositInit ==
    /\ \/ /\ op = "posit"
          /\ \/ \E t \in PositTypes :
                   /\ a \in Arrays(t[1])
                   /\ es = t[2]
             \/ /\ a = ExamplePosit
                /\ es = 0
          /\ params = DefaultParams(a.width)
       \/ /\ op = "params"
          /\ \E t \in PositTypes :
                /\ a = Zero(t[1])
                /\ es = t[2]
                /\ params \in ParamsOf(t[1])
    /\ b = Zero(1)
    /\ carry_in = 0
    /\ rhs = 0
    /\ rng = <<0, 0>>
    /\ res = <<>>
    /\ flag = FALSE
    /\ err = FALSE
    /\ count = 0
    /\ arg1 = 0
    /\ arg2 = 0
    /\ out = 0

\* positparams(a)
ToParams ==
    /\ op = "posit"
    /\ params' = positparams(es, a)
    /\ op' = "decoded"
    /\ UNCHANGED <<a, b, carry_in, rhs, rng, res, flag, err, count, es, arg1, arg2, out>>

\* the conversion of params to a posit
ToPosit ==
    /\ op \in {"params", "decoded"}
    /\ res' = <<to_posit(es, params)>>
    /\ op' = IF op = "decoded" THEN "round_trip" ELSE "encoded"
    /\ UNCHANGED <<a, b, carry_in, rhs, rng, flag, err, count, es, params, arg1, arg2, out>>

PositNext == ToParams \/ ToPosit

SpecPosit == PositInit /\ [][PositNext]_vars

\* C19: converting a posit p to positparams and the positparams back gives
\* exactly p, for every pattern of every P<N, ES>; the zero positparams
\* encode to the all-zero posit and the NaR positparams to the sign-only
\* posit.
PositRoundTrip ==
    /\ op = "round_trip" => res[1] = a
    /\ (op = "encoded" /\ params.is_nar) => res[1] = nar(a.width)
    /\ (op = "encoded" /\ ~params.is_nar /\ params.is_zero) =>
          res[1] = Zero(a.width)

\* the round trip in the posit types whose scales fit integer<N>
PositRoundTripFitting ==
    (op = "round_trip" /\ ScaleFits(a.width, es)) => res[1] = a

\* the unrounded posit of params is max_pos and the rounding increments it
RoundsPastMaxPos ==
    LET bits == encode_bits(es, params)
        x0 == posit_bits(a.width, es, bits)
    IN x0 = max_pos(a.width) /\ rounds_up(es, bits, x0)

\* C20: encoding a positparams with is_nar = false never gives the NaR
\* pattern, whatever the scale and the fraction; when the rounding would
\* increment the unrounded posit max_pos, the result is max_pos, negated
\* when sign_bit is set.
EncodeNeverNaR ==
    (op \in {"encoded", "round_trip"} /\ ~params.is_nar) =>
        /\ res[1] # nar(a.width)
        /\ (~params.is_zero /\ RoundsPastMaxPos) =>
              res[1] = IF params.sign_bit THEN posit_neg(max_pos(a.width))
                       ELSE max_pos(a.width)

EncodeClampWitness ==
    /\ op = "encoded"
    /\ ~params.is_nar
    /\ ~params.is_zero
    /\ params.sign_bit
    /\ RoundsPastMaxPos
    /\ res[1] = posit_neg(max_pos(a.width))

(***************************************************************************)
(* Addition of positparams: the inputs are two positparams arg1 and arg2   *)
(* of one posit type P<N, 0>; out is arg1 + arg2, flag tells that the       *)
(* normalization loops ended, res holds the posit that out converts to.    *)
(***************************************************************************)
\* the positparams of P<N, ES> that are added: NaR, zero and the finite
\* ones with a normalized fraction, whose leading fraction bits vary
AddParamsOf(N) ==
    LET F == FractionSize(N)
        K == Min(F, MaxAddFractionBits)
    IN {[DefaultParams(N) EXCEPT !.is_nar = TRUE], params_zero(N)} \cup
       {[is_nar |-> FALSE, is_zero |-> FALSE, sign_bit |-> s, scale |-> sc,
         fraction |-> FromNat(IntegerSize + F, (2 ^ F) + f * (2 ^ (F - K)))] :
           s \in BOOLEAN, sc \in Arrays(N), f \in 0..((2 ^ K) - 1)}

PositAddInit ==
    /\ op = "init"
    /\ \E N \in 3..MaxAddWidth :
          /\ arg1 \in AddParamsOf(N)
          /\ arg2 \in AddParamsOf(N)
          /\ a = Zero(N)
    /\ es = 0
    /\ params = NoParams
    /\ out = 0
    /\ b = Zero(1)
    /\ carry_in = 0
    /\ rhs = 0
    /\ rng = <<0, 0>>
    /\ res = <<>>
    /\ flag = FALSE
    /\ err = FALSE
    /\ count = 0

\* arg1 + arg2, and the conversion of the sum to a posit
Plus ==
    /\ op = "init"
    /\ LET s == plus(arg1, arg2)
       IN /\ out' = s[1]
          /\ flag' = s[2]
          /\ res' = <<to_posit(es, s[1])>>
    /\ op' = "plus"
    /\ UNCHANGED <<a, b, carry_in, rhs, rng, err, count, es, params, arg1, arg2>>

PositAddNext == Plus

SpecPositAdd == PositAddInit /\ [][PositAddNext]_vars

\* C21: the sum of two positparams is NaR (is_nar set, converting to the NaR
\* posit) whenever either operand is NaR, on whichever side the NaR operand
\* is and whether the other operand is zero or finite.
NaRAbsorbs ==
    (op = "plus" /\ (arg1.is_nar \/ arg2.is_nar)) =>
        /\ out.is_nar
        /\ res[1] = nar(a.width)

\* NaR on the left is absorbing
NaRAbsorbsLeft ==
    (op = "plus" /\ arg1.is_nar) => (out.is_nar /\ res[1] = nar(a.width))

\* both operands are finite and non-zero
BothFinite == ~arg1.is_nar /\ ~arg1.is_zero /\ ~arg2.is_nar /\ ~arg2.is_zero

\* TRUE when |p| > |q| for finite non-zero normalized positparams
LargerMagnitude(p, q) ==
    \/ ToInt(p.scale) > ToInt(q.scale)
    \/ ToInt(p.scale) = ToInt(q.scale) /\ ToNat(p.fraction) > ToNat(q.fraction)

\* the fraction of p aligned to the scale of q when that one is larger
AlignedFraction(p, q) ==
    IF ToInt(p.scale) < ToInt(q.scale)
    THEN ToNat(p.fraction) \div (2 ^ (ToInt(q.scale) - ToInt(p.scale)))
    ELSE ToNat(p.fraction)

\* opposite signs and equal magnitudes after the alignment of the scales
Cancels(p, q) ==
    /\ p.sign_bit # q.sign_bit
    /\ AlignedFraction(p, q) = AlignedFraction(q, p)

\* C29: for finite, non-zero, normalized positparams the normalization loops
\* of a + b end, and the sum either has is_zero set, exactly when a and b
\* have opposite signs and equal aligned magnitude (it then converts to the
\* all-zero posit), or is finite with a normalized fraction (hidden bit 1,
\* carry bit 0) and has the sign of the operand of larger magnitude.
SumIsNormalized ==
    (op = "plus" /\ BothFinite) =>
        /\ flag
        /\ ~out.is_nar
        /\ out.is_zero <=> Cancels(arg1, arg2)
        /\ out.is_zero => res[1] = Zero(a.width)
        /\ ~out.is_zero =>
              /\ bit(integer_bits(out.fraction), 0) = 1
              /\ bit(integer_bits(out.fraction), 1) = 0
              /\ LargerMagnitude(arg1, arg2) => out.sign_bit = arg1.sign_bit
              /\ LargerMagnitude(arg2, arg1) => out.sign_bit = arg2.sign_bit

(***************************************************************************)
(* Valids: comparisons, predicates, construction and arithmetic.           *)
(***************************************************************************)

Tiles(N) == {tile_from(p, u) : p \in Arrays(N), u \in BOOLEAN}

Valids(N) == {valid_from(s, t) : s \in Tiles(N), t \in Tiles(N)}

ValidInit ==
    /\ op = "init"
    /\ \E N \in 2..MaxValidWidth :
          /\ arg1 \in Valids(N)
          /\ arg2 \in Valids(N)
    /\ a = Zero(1)
    /\ b = Zero(1)
    /\ es = 0
    /\ params = NoParams
    /\ out = 0
    /\ carry_in = 0
    /\ rhs = 0
    /\ rng = <<0, 0>>
    /\ res = <<>>
    /\ flag = FALSE
    /\ err = FALSE
    /\ count = 0

ValidEquals ==
    /\ op = "init"
    /\ flag' = valid_eq(arg1, arg2)
    /\ op' = "eq"
    /\ UNCHANGED <<a, b, carry_in, rhs, rng, res, err, count, es, params, arg1, arg2, out>>

ValidNotEquals ==
    /\ op = "init"
    /\ flag' = valid_ne(arg1, arg2)
    /\ op' = "ne"
    /\ UNCHANGED <<a, b, carry_in, rhs, rng, res, err, count, es, params, arg1, arg2, out>>

ValidIsNar ==
    /\ op = "init"
    /\ flag' = valid_is_nar(arg1)
    /\ op' = "is_nar"
    /\ UNCHANGED <<a, b, carry_in, rhs, rng, res, err, count, es, params, arg1, arg2, out>>

ValidIsZero ==
    /\ op = "init"
    /\ flag' = valid_is_zero(arg1)
    /\ op' = "is_zero"
    /\ UNCHANGED <<a, b, carry_in, rhs, rng, res, err, count, es, params, arg1, arg2, out>>

\* valid(p) and valid(q) for the start posits p, q of arg1, arg2
ValidOfPosit ==
    /\ op = "init"
    /\ out' = <<valid_of(arg1.start.value), valid_of(arg2.start.value)>>
    /\ flag' = valid_is_empty(valid_of(arg1.start.value))
    /\ op' = "valid"
    /\ UNCHANGED <<a, b, carry_in, rhs, rng, res, err, count, es, params, arg1, arg2>>

ValidPlus ==
    /\ op = "init"
    /\ LET d == valid_plus(arg1, arg2)
       IN /\ err' = d.threw
          /\ res' = d.value
    /\ op' = "valid_plus"
    /\ UNCHANGED <<a, b, carry_in, rhs, rng, flag, count, es, params, arg1, arg2, out>>

ValidMinus ==
    /\ op = "init"
    /\ LET d == valid_minus(arg1, arg2)
       IN /\ err' = d.threw
          /\ res' = d.value
    /\ op' = "valid_minus"
    /\ UNCHANGED <<a, b, carry_in, rhs, rng, flag, count, es, params, arg1, arg2, out>>

ValidTimes ==
    /\ op = "init"
    /\ LET d == valid_times(arg1, arg2)
       IN /\ err' = d.threw
          /\ res' = d.value
    /\ op' = "valid_times"
    /\ UNCHANGED <<a, b, carry_in, rhs, rng, flag, count, es, params, arg1, arg2, out>>

ValidDividedBy ==
    /\ op = "init"
    /\ LET d == valid_divided_by(arg1, arg2)
       IN /\ err' = d.threw
          /\ res' = d.value
    /\ op' = "valid_divided_by"
    /\ UNCHANGED <<a, b, carry_in, rhs, rng, flag, count, es, params, arg1, arg2, out>>

ValidNext ==
    \/ ValidEquals
    \/ ValidNotEquals
    \/ ValidIsNar
    \/ ValidIsZero
    \/ ValidOfPosit
    \/ ValidPlus
    \/ ValidMinus
    \/ ValidTimes
    \/ ValidDividedBy

SpecValid == ValidInit /\ [][ValidNext]_vars

SameEndpoints(v, w) == v.start = w.start /\ v.end = w.end

\* C22: v == w holds exactly when the start tiles are equal and the end tiles
\* are equal, v != w is its negation, is_nar() holds exactly for the valid
\* (NaR, NaR) and is_zero() exactly for the valid (zero, zero).
ValidEqualityIsComponentwise ==
    /\ op = "eq" => (flag <=> SameEndpoints(arg1, arg2))
    /\ op = "ne" => (flag <=> ~SameEndpoints(arg1, arg2))
    /\ op = "is_nar" => (flag <=> arg1 = valid_nar(arg1.start.value.width))
    /\ op = "is_zero" => (flag <=> arg1 = valid_zero(arg1.start.value.width))

\* the predicates alone: is_nar() exactly for (NaR, NaR), is_zero() exactly
\* for (zero, zero)
ValidPredicatesExact ==
    /\ op = "is_nar" => (flag <=> arg1 = valid_nar(arg1.start.value.width))
    /\ op = "is_zero" => (flag <=> arg1 = valid_zero(arg1.start.value.width))

ValidArithmetic == {"valid_plus", "valid_minus", "valid_times", "valid_divided_by"}

\* C23: each of the operators + - * / of valids fails with the
\* not-implemented error for every pair of operands, the empty valid and the
\* NaR valid included; no value is returned and the operands are unchanged.
ValidArithmeticNotImplemented ==
    [][op' \in ValidArithmetic =>
          (err' /\ res' = <<>> /\ arg1' = arg1 /\ arg2' = arg2)]_vars

ValidArithmeticWitness ==
    /\ op = "valid_plus"
    /\ arg1 = valid_empty(arg1.start.value.width)
    /\ arg2 = valid_nar(arg2.start.value.width)
    /\ err
    /\ res = <<>>

\* C30: the valid made from the exact posit p has both endpoints at p, is not
\* empty, and differs from the valid made from any other posit q.
ValidOfPositIsExact ==
    op = "valid" =>
        /\ out[1].start.value = arg1.start.value
        /\ out[1].end.value = arg1.start.value
        /\ ~flag
        /\ (arg1.start.value # arg2.start.value => out[1] # out[2])

(***************************************************************************)
(* Normalized floats: add, sub with their dispatch, and div.               *)
(***************************************************************************)

\* the normalized floats of a format: leading mantissa bit set, and the zeros
NormFloats(E, M) ==
    {normfloat(s, e, m) : s \in BOOLEAN, e \in Arrays(E),
                          m \in {x \in Arrays(M) : bit(x, M - 1) = 1}}
    \cup {normfloat(s, Zero(E), Zero(M)) : s \in BOOLEAN}

FloatInit ==
    /\ op = "init"
    /\ \E E \in 2..MaxExponentWidth, M \in 2..MaxMantissaWidth :
          /\ arg1 \in NormFloats(E, M)
          /\ arg2 \in NormFloats(E, M)
    /\ a = Zero(1)
    /\ b = Zero(1)
    /\ es = 0
    /\ params = NoParams
    /\ out = 0
    /\ carry_in = 0
    /\ rhs = 0
    /\ rng = <<0, 0>>
    /\ res = <<>>
    /\ flag = FALSE
    /\ err = FALSE
    /\ count = 0

\* add(lhs, rhs) and sub(lhs, rhs) enter add_ and sub_
FloatAdd ==
    /\ op = "init"
    /\ op' = "add_"
    /\ UNCHANGED <<a, b, carry_in, rhs, rng, res, flag, err, count, es, params, arg1, arg2, out>>

FloatSub ==
    /\ op = "init"
    /\ op' = "sub_"
    /\ UNCHANGED <<a, b, carry_in, rhs, rng, res, flag, err, count, es, params, arg1, arg2, out>>

\* add_: abs(lhs) < abs(rhs), return add(rhs, lhs)
AddSwap ==
    /\ op = "add_"
    /\ count < MaxDispatch
    /\ float_less(float_abs(arg1), float_abs(arg2))
    /\ arg1' = arg2
    /\ arg2' = arg1
    /\ count' = count + 1
    /\ op' = "add_"
    /\ UNCHANGED <<a, b, carry_in, rhs, rng, res, flag, err, es, params, out>>

\* add_: the signs differ, return sub_(lhs, swap_sign)
AddToSub ==
    /\ op = "add_"
    /\ count < MaxDispatch
    /\ ~float_less(float_abs(arg1), float_abs(arg2))
    /\ arg1.sign # arg2.sign
    /\ arg2' = flip_sign(arg2)
    /\ count' = count + 1
    /\ op' = "sub_"
    /\ UNCHANGED <<a, b, carry_in, rhs, rng, res, flag, err, es, params, arg1, out>>

\* add_: neither branch is taken, the significand step is next
AddOrdered ==
    /\ op = "add_"
    /\ ~float_less(float_abs(arg1), float_abs(arg2))
    /\ arg1.sign = arg2.sign
    /\ op' = "add_significand"
    /\ UNCHANGED <<a, b, carry_in, rhs, rng, res, flag, err, count, es, params, arg1, arg2, out>>

\* add_: the significand step and the normalization
AddSignificand ==
    /\ op = "add_significand"
    /\ out' = add_significand(arg1, arg2)
    /\ op' = "add_done"
    /\ UNCHANGED <<a, b, carry_in, rhs, rng, res, flag, err, count, es, params, arg1, arg2>>

\* sub_: abs(lhs) < abs(rhs), return add(swap, lhs)
SubSwap ==
    /\ op = "sub_"
    /\ count < MaxDispatch
    /\ float_less(float_abs(arg1), float_abs(arg2))
    /\ arg1' = flip_sign(arg2)
    /\ arg2' = arg1
    /\ count' = count + 1
    /\ op' = "add_"
    /\ UNCHANGED <<a, b, carry_in, rhs, rng, res, flag, err, es, params, out>>

\* sub_: the signs differ, return add_(lhs, swap_sign)
SubToAdd ==
    /\ op = "sub_"
    /\ count < MaxDispatch
    /\ ~float_less(float_abs(arg1), float_abs(arg2))
    /\ arg1.sign # arg2.sign
    /\ arg2' = flip_sign(arg2)
    /\ count' = count + 1
    /\ op' = "add_"
    /\ UNCHANGED <<a, b, carry_in, rhs, rng, res, flag, err, es, params, arg1, out>>

\* sub_: neither branch is taken, the significand step is next
SubOrdered ==
    /\ op = "sub_"
    /\ ~float_less(float_abs(arg1), float_abs(arg2))
    /\ arg1.sign = arg2.sign
    /\ op' = "sub_significand"
    /\ UNCHANGED <<a, b, carry_in, rhs, rng, res, flag, err, count, es, params, arg1, arg2, out>>

\* sub_: the significand step and the normalization
SubSignificand ==
    /\ op = "sub_significand"
    /\ out' = sub_significand(arg1, arg2)
    /\ op' = "sub_done"
    /\ UNCHANGED <<a, b, carry_in, rhs, rng, res, flag, err, count, es, params, arg1, arg2>>

FloatDiv ==
    /\ op = "init"
    /\ LET d == float_div(arg1, arg2)
       IN /\ err' = d.threw
          /\ res' = d.value
    /\ op' = "float_div"
    /\ UNCHANGED <<a, b, carry_in, rhs, rng, flag, count, es, params, arg1, arg2, out>>

FloatNext ==
    \/ FloatAdd
    \/ FloatSub
    \/ AddSwap
    \/ AddToSub
    \/ AddOrdered
    \/ AddSignificand
    \/ SubSwap
    \/ SubToAdd
    \/ SubOrdered
    \/ SubSignificand
    \/ FloatDiv

\* the branches at the head of add_ and sub_
FloatDispatch ==
    \/ AddSwap
    \/ AddToSub
    \/ AddOrdered
    \/ SubSwap
    \/ SubToAdd
    \/ SubOrdered

\* a call of add_ or sub_ that was entered takes the branch its operands select
SpecFloat == FloatInit /\ [][FloatNext]_vars /\ WF_vars(FloatDispatch)

FloatIsZero(f) == is_zero(f.exponent) /\ is_zero(f.mantissa)

FloatIsFinite(f) == ToNat(f.exponent) # (2 ^ f.exponent.width) - 1

\* infinity: all-ones exponent, zero fraction (the mantissa bits below the
\* leading 1)
FloatIsInf(f) ==
    /\ ToNat(f.exponent) = (2 ^ f.exponent.width) - 1
    /\ ToNat(f.mantissa) % (2 ^ (f.mantissa.width - 1)) = 0

\* C24: div(a, b) with b zero and a finite and non-zero returns infinity with
\* the sign s_a XOR s_b and raises no error.
DivByZeroIsInfinity ==
    (op = "float_div" /\ FloatIsZero(arg2) /\ FloatIsFinite(arg1) /\ ~FloatIsZero(arg1)) =>
        /\ ~err
        /\ Len(res) = 1
        /\ FloatIsInf(res[1])
        /\ res[1].sign = (arg1.sign # arg2.sign)

\* the exponent difference and the significand subtraction of the significand
\* step stay non-negative
NoUnderflow(x, y) ==
    /\ ToNat(x.exponent) >= ToNat(y.exponent)
    /\ ToNat(x.mantissa) >=
          ToNat(op_shr(y.mantissa, ToNat(x.exponent) - ToNat(y.exponent)))

SignificandStep == {"add_significand", "sub_significand"}

\* C28: the dispatch between add and sub ends: at most two re-dispatches are
\* made, the significand step is reached, and there |lhs| >= |rhs|, the signs
\* are equal, and neither the exponent difference nor the significand
\* subtraction underflows.
DispatchTerminates ==
    /\ [](/\ count <= 2
          /\ op \in SignificandStep =>
                /\ ~float_less(float_abs(arg1), float_abs(arg2))
                /\ arg1.sign = arg2.sign
                /\ NoUnderflow(arg1, arg2))
    /\ (op \in {"add_", "sub_"} ~> op \in SignificandStep)

DispatchWitness ==
    /\ op = "sub_significand"
    /\ count = 2
    /\ ~FloatIsZero(arg2)

(***************************************************************************)
(* Fixed-point numbers: the expanding addition.                            *)
(***************************************************************************)

Fixeds(is_signed) ==
    UNION {{from_bitstring(I, F, is_signed, x) : x \in Arrays(I + F)} :
              I \in 1..MaxFixedWidth, F \in 1..MaxFixedWidth}

FixedInit ==
    /\ op = "init"
    /\ \E is_signed \in BOOLEAN :
          /\ arg1 \in Fixeds(is_signed)
          /\ arg2 \in Fixeds(is_signed)
    /\ a = Zero(1)
    /\ b = Zero(1)
    /\ es = 0
    /\ params = NoParams
    /\ out = 0
    /\ carry_in = 0
    /\ rhs = 0
    /\ rng = <<0, 0>>
    /\ res = <<>>
    /\ flag = FALSE
    /\ err = FALSE
    /\ count = 0

\* expanding_add(arg1, arg2) and expanding_add(arg2, arg1)
FixedExpandingAdd ==
    /\ op = "init"
    /\ out' = fixed_expanding_add(arg1, arg2)
    /\ res' = <<fixed_expanding_add(arg2, arg1)>>
    /\ op' = "fixed_expanding_add"
    /\ UNCHANGED <<a, b, carry_in, rhs, rng, flag, err, count, es, params, arg1, arg2>>

FixedNext == FixedExpandingAdd

SpecFixed == FixedInit /\ [][FixedNext]_vars

\* the value of a fixed-point number in units of 2^-F
FixedUnits(x, F) ==
    (IF x.is_signed THEN ToInt(x.bits) ELSE ToNat(x.bits)) * (2 ^ (F - x.frac_width))

\* C25: expanding_add(a, b) has the format (max(I1, I2) + 1, max(F1, F2)) and
\* is the exact sum of a and b; it is commutative for equal and for different
\* formats, and expanding_add(a, 0) is a.
FixedExpandingAddExact ==
    op = "fixed_expanding_add" =>
        /\ out.int_width = Max(arg1.int_width, arg2.int_width) + 1
        /\ out.frac_width = Max(arg1.frac_width, arg2.frac_width)
        /\ FixedUnits(out, out.frac_width) =
              FixedUnits(arg1, out.frac_width) + FixedUnits(arg2, out.frac_width)
        /\ out = res[1]
        /\ (is_zero(arg2.bits) =>
               FixedUnits(out, out.frac_width) = FixedUnits(arg1, out.frac_width))

\* the parts of C25 that hold: the format of the result, and adding zero on
\* the right
FixedExpandingAddFormat ==
    op = "fixed_expanding_add" =>
        /\ out.int_width = Max(arg1.int_width, arg2.int_width) + 1
        /\ out.frac_width = Max(arg1.frac_width, arg2.frac_width)
        /\ (is_zero(arg2.bits) =>
               FixedUnits(out, out.frac_width) = FixedUnits(arg1, out.frac_width))

(***************************************************************************)
(* Zips with expansion.                                                    *)
(***************************************************************************)

ZipInit ==
    /\ op = "init"
    /\ \E W \in 1..MaxZipWidth, V \in 1..MaxZipWidth :
          /\ a \in Arrays(W)
          /\ b \in Arrays(V)
    /\ arg1 \in WordFunctions \cup StateFunctions
    /\ arg2 \in 0..MaxZipState
    /\ es = 0
    /\ params = NoParams
    /\ out = 0
    /\ carry_in = 0
    /\ rhs = 0
    /\ rng = <<0, 0>>
    /\ res = <<>>
    /\ flag = FALSE
    /\ err = FALSE
    /\ count = 0

ZipWithExpand ==
    /\ op = "init"
    /\ arg1 \in WordFunctions
    /\ res' = <<zip_with_expand(a, b, arg1)>>
    /\ op' = "zip_with_expand"
    /\ UNCHANGED <<a, b, carry_in, rhs, rng, flag, err, count, es, params, arg1, arg2, out>>

ZipWithStateExpand ==
    /\ op = "init"
    /\ arg1 \in StateFunctions
    /\ res' = <<zip_with_state_expand(a, b, arg1, arg2)>>
    /\ op' = "zip_with_state_expand"
    /\ UNCHANGED <<a, b, carry_in, rhs, rng, flag, err, count, es, params, arg1, arg2, out>>

ZipNext ==
    \/ ZipWithExpand
    \/ ZipWithStateExpand

SpecZip == ZipInit /\ [][ZipNext]_vars

\* the operand zero-extended to the wider of the two widths
ZeroExtended(x, y) == FromNat(Max(x.width, y.width), ToNat(x))

\* C26: zip_with_expand(w, v, f) has max(W, V) bits and its word i is
\* f(w'_i, v'_i) masked to that width, w' and v' the operands zero-extended
\* to max(W, V) bits, for every pair of widths.
ZipWithExpandIsWordwise ==
    op = "zip_with_expand" =>
        /\ res[1].width = Max(a.width, b.width)
        /\ \A i \in 0..(word_count(res[1].width) - 1) :
              word(res[1], i) =
                 WordAnd(apply_word(arg1, word(ZeroExtended(a, b), i),
                                    word(ZeroExtended(b, a), i)),
                         word_mask(res[1].width, i))

\* C26 for operands of different word counts
ZipWithExpandDifferentCounts ==
    (op = "zip_with_expand" /\ word_count(a.width) # word_count(b.width)) =>
        /\ res[1].width = Max(a.width, b.width)
        /\ \A i \in 0..(word_count(res[1].width) - 1) :
              word(res[1], i) =
                 WordAnd(apply_word(arg1, word(ZeroExtended(a, b), i),
                                    word(ZeroExtended(b, a), i)),
                         word_mask(res[1].width, i))

\* C27: zip_with_state_expand(w, v, f, s0) is zip_with_state of the
\* zero-extended operands with the same initial state s0.
ZipWithStateExpandThreadsState ==
    op = "zip_with_state_expand" =>
        res[1] = zip_with_state(ZeroExtended(a, b), ZeroExtended(b, a), arg1, arg2)

\* C27 for operands of different word counts
ZipWithStateExpandDifferentCounts ==
    (op = "zip_with_state_expand" /\ word_count(a.width) # word_count(b.width)) =>
        res[1] = zip_with_state(ZeroExtended(a, b), ZeroExtended(b, a), arg1, arg2)

====
